---- MODULE Spec2Model ----
(***************************************************************************)
(* Consensus backend: the hybrid search handler GET /api/search            *)
(* (api/routes/search.py), modelled as a state machine that processes one  *)
(* request from its arrival to its response.                               *)
(*                                                                         *)
(* Numbers.  Similarity, rerank and blended scores are integers in units   *)
(* of 1/Unit (four decimals, as the code rounds them).  Distances and the  *)
(* threshold are integers in units of 1/DistUnit (five decimals), so that  *)
(* round(1 - distance, 4) really rounds.                                   *)
(***************************************************************************)
EXTENDS Integers, Sequences, FiniteSets, TLC

\* ------------------------------------------------------------------ bounds
\* Largest number of rows of the store that match one query.
MaxCands == 3
\* Largest limit a request of the model carries (the code allows 1..100).
MaxLimit == 2

\* Rows of a short CSV file.
MaxRows == 2
\* The clock stops here: upsert statements run at the times before it.
MaxTime == 4
\* Rows of the stores the semantic duplicate check is run on.
MaxDupRows == 6
\* Remote and store calls that raise while one upload is served.
MaxFailures == 1

\* EMBEDDING_CACHE_SIZE as configured for the model (the default is 256).
CacheSize == 2
\* EMBEDDING_CACHE_MAX_TEXT_LEN as configured for the model (the default is 1024).
CacheMaxTextLen == 2

\* ------------------------------------------------------- program constants
VECTOR_FETCH_MULTIPLIER == 2
VECTOR_FETCH_MIN == 30
VECTOR_FETCH_MAX == 120
RERANK_DEFAULT_TOP_K == 20
RERANK_HARD_MAX == 40
\* limit and rerank_top_k: ge=1, le=100
LIMIT_MAX == 100
\* round(x, 4): scores are kept in units of 1/Unit.
Unit == 10000
\* EMBEDDING_DIMENSIONS, part of every cache key.
EMBEDDING_DIMENSIONS == 1024
EMBEDDING_MODEL == "Qwen/Qwen3-Embedding-8B"
DistUnit == 10 * Unit

Min(a, b) == IF a <= b THEN a ELSE b
Max(a, b) == IF a >= b THEN a ELSE b

\* round(n / d) for d > 0; the inputs of the model never fall on a half.
RoundDiv(n, d) == (2 * n + d) \div (2 * d)

\* ------------------------------------------------------------ input domains
Whitespace == {" ", "\t"}

\* Query strings, as sequences of characters (min_length = 1).
Queries ==
  { <<" ">>,
    <<"h">>,
    <<"h", " ", "v">>,
    <<" ", "h", " ", "\t", "v", " ">>,
    <<"a", " ", "b", " ", "c">>,
    <<"a", "\t", " ", "b", " ", "c", " ", "d">> }

PriceVals == {1, 2}
OptPrices == {[some |-> FALSE, val |-> 0]} \cup {[some |-> TRUE, val |-> v] : v \in PriceVals}
\* An Optional[float] parameter: None, or a number.
Absent == [some |-> FALSE, val |-> 0]
Some(v) == [some |-> TRUE, val |-> v]

\* threshold: 0.0, 0.6 (the default) and 1.0, in distance units.
Thresholds == {0, 6 * Unit, DistUnit}

\* Distances the store may report: 0 (identical), 0.10002, 0.6, 0.7.
Distances == {0, Unit + 2, 6 * Unit, 7 * Unit}

\* A rerank score is a number or the JSON null.
NoneScore == [num |-> FALSE, val |-> 0]
NumScore(v) == [num |-> TRUE, val |-> v]
ScoreVals == {NumScore(5000), NumScore(6000), NoneScore}

Requests ==
  [ q : Queries,
    limit : 1..MaxLimit,
    threshold : Thresholds,
    rerank : BOOLEAN,
    rerank_top_k : {1, RERANK_DEFAULT_TOP_K},
    min_price : OptPrices,
    max_price : OptPrices,
    route : {"search"},
    min_revenue : {Absent},
    max_revenue : {Absent},
    revenue_min : {Absent},
    revenue_max : {Absent} ]

\* Searches over the whole range of limit, without rerank, and searches with
\* rerank whose limit and rerank_top_k lie below, at and above the hard cap of
\* the rerank window.
WindowRequests ==
  [ q : {<<"h">>, <<"a", " ", "b", " ", "c">>},
    limit : 1..LIMIT_MAX,
    threshold : {6 * Unit},
    rerank : {FALSE},
    rerank_top_k : {RERANK_DEFAULT_TOP_K},
    min_price : {Absent}, max_price : {Absent}, route : {"search"},
    min_revenue : {Absent}, max_revenue : {Absent},
    revenue_min : {Absent}, revenue_max : {Absent} ]
  \cup
  [ q : {<<"a", " ", "b", " ", "c">>},
    limit : {1, RERANK_HARD_MAX + 1},
    threshold : {DistUnit \div 2, DistUnit},
    rerank : {TRUE},
    rerank_top_k : {1, 2, RERANK_HARD_MAX, RERANK_HARD_MAX + 1, LIMIT_MAX},
    min_price : {Absent}, max_price : {Absent}, route : {"search"},
    min_revenue : {Absent}, max_revenue : {Absent},
    revenue_min : {Absent}, revenue_max : {Absent} ]

\* Requests to GET /api/search and GET /api/listings that differ in their
\* ranges: revenue with its legacy aliases revenue_min and revenue_max, and
\* price, which has none (ebitda is handled like revenue, cash_flow like price).
RangeRequests ==
  [ q : {<<"h">>, <<"a", " ", "b", " ", "c">>},
    limit : {1},
    threshold : {6 * Unit},
    rerank : {FALSE},
    rerank_top_k : {RERANK_DEFAULT_TOP_K},
    min_price : {Absent, Some(2)},
    max_price : {Absent, Some(1)},
    route : {"search", "listings"},
    min_revenue : OptPrices,
    max_revenue : OptPrices,
    revenue_min : OptPrices,
    revenue_max : OptPrices ]

\* -------------------------------------------------------------------- state
VARIABLES
  pc,             \* position of the handler
  req,            \* the request being served
  conn,           \* the store connection of the request: "none", "held", "released"
  calls,          \* remote and store calls issued so far, in order
  embedOutcome,   \* "none", "vector", "empty", "error"
  candidates,     \* rows returned by _semantic_candidates
  results,        \* the handler's local variable results
  rerankOutcome,  \* "none", "skipped", "error", "mismatch", "partial", "applied"
  rerankReply,    \* what rerank_documents did: raised, or how many scores it returned
  storeFailed,    \* a store call raised
  response,       \* the response sent
  \* the embedding cache (embeddings.py) and the threads that call get_embedding
  cache,          \* entries [key, vec] of _get_embedding_cached, oldest first
  cpc,            \* per thread: "idle", "remote", "insert", "direct"
  ckey,           \* per thread: the cache key of the call in progress
  cvec,           \* per thread: the vector the remote call returned
  cret,           \* per thread: how its last call went
  useOrder,       \* the stored keys in the order of their last access, latest last
  \* the store (raw_listings)
  store,          \* the committed rows
  work,           \* the rows as the open transaction sees them
  prevStore,      \* the committed rows before the request or statement
  now,            \* NOW()
  lastOp,         \* the last upsert statement run on its own
  \* the upload handlers (upload.py)
  upc,            \* position of the handler
  ureq,           \* the upload being served
  udata,          \* data: the record being ingested
  uconn,          \* the store connection of the upload: "none", "held", "released"
  ucalls,         \* remote and store calls issued so far, in order
  urow,           \* the index of the record in the request
  isUrlDup,       \* is_url_dup
  similar,        \* similar: the matches of level 2
  uembed,         \* embedding_str: the embedding to insert, or None
  inserted,       \* inserted
  skipped,        \* skipped
  errors,         \* errors: the row numbers reported
  allSimilar,     \* all_similar
  uresp,          \* the response sent
  failures,       \* calls that raised so far
  \* two workers that serve upload_single concurrently
  wpc,            \* per worker: position of the handler
  wdata,          \* per worker: data
  wdup,           \* per worker: is_url_dup
  wsimilar,       \* per worker: similar
  wembed,         \* per worker: embedding_str
  wresp           \* per worker: the response sent

searchVars == <<pc, req, conn, calls, embedOutcome, candidates, results,
                rerankOutcome, rerankReply, storeFailed, response>>

cacheVars == <<cache, cpc, ckey, cvec, cret, useOrder>>

storeVars == <<store, work, prevStore, now, lastOp>>

uploadVars == <<upc, ureq, udata, uconn, ucalls, urow, isUrlDup, similar, uembed,
                inserted, skipped, errors, allSimilar, uresp, failures>>

workerVars == <<wpc, wdata, wdup, wsimilar, wembed, wresp>>

\* What the search handler leaves alone.
nonSearchVars == <<cacheVars, storeVars, uploadVars, workerVars>>

\* What the embedding cache leaves alone.
nonCacheVars == <<searchVars, storeVars, uploadVars, workerVars>>

\* What the upload handlers and the upsert statements leave alone.
nonUploadVars == <<searchVars, cacheVars, workerVars>>

\* What the concurrent workers leave alone, the store apart.
nonWorkerVars == <<searchVars, cacheVars, uploadVars>>

vars == <<searchVars, cacheVars, storeVars, uploadVars, workerVars>>

NoReply == [kind |-> "none", n |-> 0]

NoRequest ==
  [ q |-> <<"h">>, limit |-> 1, threshold |-> 0, rerank |-> FALSE,
    rerank_top_k |-> 1,
    min_price |-> [some |-> FALSE, val |-> 0],
    max_price |-> [some |-> FALSE, val |-> 0],
    route |-> "search",
    min_revenue |-> Absent, max_revenue |-> Absent,
    revenue_min |-> Absent, revenue_max |-> Absent ]

NoResponse == [status |-> 0, query |-> <<>>, method |-> "", total |-> 0, data |-> <<>>]

InitSearch ==
  /\ pc = "idle"
  /\ req = NoRequest
  /\ conn = "none"
  /\ calls = <<>>
  /\ embedOutcome = "none"
  /\ candidates = <<>>
  /\ results = <<>>
  /\ rerankOutcome = "none"
  /\ rerankReply = NoReply
  /\ storeFailed = FALSE
  /\ response = NoResponse

\* ------------------------------------------------------------ pure helpers
RECURSIVE LStrip(_)
LStrip(s) ==
  IF s # <<>> /\ Head(s) \in Whitespace THEN LStrip(Tail(s)) ELSE s

RECURSIVE RStrip(_)
RStrip(s) ==
  IF s # <<>> /\ s[Len(s)] \in Whitespace THEN RStrip(SubSeq(s, 1, Len(s) - 1)) ELSE s

\* str.strip()
Strip(s) == RStrip(LStrip(s))

\* str.split(): the maximal runs of non-whitespace characters, in order.
RECURSIVE SplitFrom(_, _, _, _)
SplitFrom(s, i, cur, acc) ==
  IF i > Len(s)
  THEN IF cur = <<>> THEN acc ELSE Append(acc, cur)
  ELSE IF s[i] \in Whitespace
       THEN SplitFrom(s, i + 1, <<>>, IF cur = <<>> THEN acc ELSE Append(acc, cur))
       ELSE SplitFrom(s, i + 1, Append(cur, s[i]), acc)

Split(s) == SplitFrom(s, 1, <<>>, <<>>)

\* words = q.strip().split()
Words(q) == Split(Strip(q))

\* len(words) < 3: the classifier's choice of the text path.
UseTextPathShifted(words) == Len(words) < 2
UseTextPath(words) == Len(words) < 3

\* validate_min_max raises ValueError exactly when this holds.
InvalidRange(min_value, max_value) ==
  min_value.some /\ max_value.some /\ min_value.val > max_value.val

\* min_revenue if min_revenue is not None else revenue_min
EffectiveIgnoringAlias(value, alias) == value
Effective(value, alias) == IF value.some THEN value ELSE alias

\* _validate_ranges_or_422 raises HTTPException(422).
RangesInvalid(r) ==
  \/ InvalidRange(Effective(r.min_revenue, r.revenue_min),
                  Effective(r.max_revenue, r.revenue_max))
  \/ InvalidRange(r.min_price, r.max_price)

\* build_listing_filter_conditions: the conditions with their bound parameters.
FilterConditions(r) ==
  (IF Effective(r.min_revenue, r.revenue_min).some
   THEN << <<"gross_revenue_num >= %s", Effective(r.min_revenue, r.revenue_min).val>> >>
   ELSE <<>>)
  \o (IF Effective(r.max_revenue, r.revenue_max).some
      THEN << <<"gross_revenue_num <= %s", Effective(r.max_revenue, r.revenue_max).val>> >>
      ELSE <<>>)
  \o (IF r.min_price.some THEN << <<"price_num >= %s", r.min_price.val>> >> ELSE <<>>)
  \o (IF r.max_price.some THEN << <<"price_num <= %s", r.max_price.val>> >> ELSE <<>>)

\* fetch_limit = min(_VECTOR_FETCH_MAX, max(limit * mult, _VECTOR_FETCH_MIN, limit))
FetchLimitUncapped(limit) ==
  Max(Max(limit * VECTOR_FETCH_MULTIPLIER, VECTOR_FETCH_MIN), limit)
FetchLimit(limit) ==
  Min(VECTOR_FETCH_MAX, Max(Max(limit * VECTOR_FETCH_MULTIPLIER, VECTOR_FETCH_MIN), limit))

\* rows[:n]
Take(rows, n) == SubSeq(rows, 1, Min(n, Len(rows)))

\* rows[n:]
Drop(rows, n) == SubSeq(rows, Min(n, Len(rows)) + 1, Len(rows))

\* results[:limit] of the vector path.
TruncateNone(rows, limit) == rows
Truncate(rows, limit) == Take(rows, limit)

\* (row.get("distance", 1.0) or 1.0): a distance of 0 is falsy and reads as 1.0.
EffDistance(d) == IF d = 0 THEN DistUnit ELSE d

\* row["similarity_score"] = round(1.0 - distance, 4)
Similarity(d) == RoundDiv(DistUnit - EffDistance(d), DistUnit \div Unit)

\* One row of _semantic_candidates, from the store's row id and distance.
CandidateRow(id, d) ==
  [ id |-> id, distance |-> d, similarity_score |-> Similarity(d),
    has_rerank |-> FALSE, rerank_score |-> NoneScore ]

\* The test of the threshold filter on one row.
KeepBySimilarity(row, threshold) == row.similarity_score * (DistUnit \div Unit) <= threshold
Keep(row, threshold) == EffDistance(row.distance) <= threshold

\* [r for r in results if (r.get("distance", 1.0) or 1.0) <= threshold]
ThresholdFilter(rows, threshold) ==
  LET Test(row) == Keep(row, threshold) IN SelectSeq(rows, Test)

\* rerank_count = min(len(results), min(_RERANK_HARD_MAX, max(limit, rerank_top_k)))
RerankCountUncapped(n, limit, rerank_top_k) == Min(n, Max(limit, rerank_top_k))
RerankCount(n, limit, rerank_top_k) ==
  Min(n, Min(RERANK_HARD_MAX, Max(limit, rerank_top_k)))

\* round((similarity_score * 0.4) + (score * 0.6), 4)
BlendWeightsSwapped(similarity, score) == RoundDiv(6 * similarity + 4 * score, 10)
Blend(similarity, score) == RoundDiv(4 * similarity + 6 * score, 10)

\* if scores and len(scores) == len(rerank_slice)
ScoresUsableAnyLength(scores, rerank_slice) == scores # <<>>
ScoresUsable(scores, rerank_slice) ==
  scores # <<>> /\ Len(scores) = Len(rerank_slice)

\* The zip loop of the rerank step: rerank_score is stored first, then the
\* blended score; a null score makes the arithmetic raise (TypeError) with the
\* rows before it already changed.
RECURSIVE ApplyFrom(_, _, _)
ApplyFrom(rows, scores, i) ==
  IF i > Min(Len(rows), Len(scores))
  THEN [rows |-> rows, raised |-> FALSE]
  ELSE LET stored == [rows EXCEPT ![i].has_rerank = TRUE, ![i].rerank_score = scores[i]]
       IN IF ~scores[i].num
          THEN [rows |-> stored, raised |-> TRUE]
          ELSE ApplyFrom([stored EXCEPT ![i].similarity_score = Blend(@, scores[i].val)],
                         scores, i + 1)

ApplyScores(rows, scores) == ApplyFrom(rows, scores, 1)

\* Insert row into a list sorted by descending key, after the rows of equal key.
RECURSIVE InsertDesc(_, _, _)
InsertDesc(sorted, row, i) ==
  IF i > Len(sorted) \/ sorted[i].rerank_score.val < row.rerank_score.val
  THEN SubSeq(sorted, 1, i - 1) \o <<row>> \o SubSeq(sorted, i, Len(sorted))
  ELSE InsertDesc(sorted, row, i + 1)

RECURSIVE SortFrom(_, _, _)
SortFrom(rows, i, sorted) ==
  IF i > Len(rows) THEN sorted ELSE SortFrom(rows, i + 1, InsertDesc(sorted, rows[i], 1))

\* rerank_slice.sort(key=lambda x: x["rerank_score"], reverse=True): stable.
SortByRerankDesc(rows) == SortFrom(rows, 1, <<>>)

\* results[rerank_count:]
UntouchedTailFromStart(rows, rerank_count) == rows
UntouchedTail(rows, rerank_count) == Drop(rows, rerank_count)

\* The body of the try block once rerank_documents has returned scores.
RerankResult(rows, limit, rerank_top_k, scores) ==
  LET rerank_count == RerankCount(Len(rows), limit, rerank_top_k)
      rerank_slice == Take(rows, rerank_count)
      tail == UntouchedTail(rows, rerank_count)
  IN IF ScoresUsable(scores, rerank_slice)
     THEN LET a == ApplyScores(rerank_slice, scores)
          IN IF a.raised \/ \E i \in 1..Len(a.rows) : ~a.rows[i].has_rerank
             THEN [results |-> a.rows \o tail, outcome |-> "partial"]
             ELSE [results |-> SortByRerankDesc(a.rows) \o tail, outcome |-> "applied"]
     ELSE [results |-> rows, outcome |-> "mismatch"]

\* The method tags of the responses.
TextTag == "text"
FallbackTagSame == "text"
FallbackTag == "text (embedding fallback)"
SemanticTag == "semantic"
RerankTag == "semantic + rerank"

\* "semantic + rerank" if rerank else "semantic"
VectorTag(rerank) == IF rerank THEN RerankTag ELSE SemanticTag

Ok(method, rows) ==
  [status |-> 200, query |-> req.q, method |-> method, total |-> Len(rows), data |-> rows]

Failed(status) == [NoResponse EXCEPT !.status = status]

\* ----------------------------------------------------------- store answers
\* Rows of the store that match a text pattern, in the store's natural order.
TextRows(n) == [i \in 1..n |-> [id |-> i]]

\* The distances of RERANK_HARD_MAX + 1 matching rows, the last one farther.
LongList ==
  [i \in 1..(RERANK_HARD_MAX + 1) |-> IF i <= RERANK_HARD_MAX THEN Unit + 2 ELSE 6 * Unit]

\* Distances of the matching rows as ORDER BY distance returns them.
AscendingLists ==
  { ds \in UNION {[1..n -> Distances] : n \in 0..MaxCands} :
      \A i \in 1..Len(ds) : \A j \in i..Len(ds) : ds[i] <= ds[j] }
  \cup {LongList}

\* The score a reply to a large window repeats for every document.
WindowScores == {NumScore(5001), NumScore(5002), NoneScore}

\* What rerank_documents may return for n documents: any list of at most n + 1
\* scores for a small window, one score repeated n times (or no score) for a
\* large one.
ScoreLists(n) ==
  IF n <= MaxCands
  THEN UNION {[1..k -> ScoreVals] : k \in 0..(n + 1)}
  ELSE {[i \in 1..n |-> v] : v \in WindowScores} \cup {<<>>}

\* ------------------------------------------------------------------ actions
\* A request arrives at GET /api/search.
Request ==
  /\ pc = "idle"
  /\ \E r \in Requests : req' = r
  /\ pc' = "validate"
  /\ UNCHANGED <<conn, calls, embedOutcome, candidates, results, rerankOutcome,
                 rerankReply, storeFailed, response>>
  /\ UNCHANGED nonSearchVars

\* A request with ranges arrives at GET /api/search or GET /api/listings.
RangeRequest ==
  /\ pc = "idle"
  /\ \E r \in RangeRequests : req' = r
  /\ pc' = "validate"
  /\ UNCHANGED <<conn, calls, embedOutcome, candidates, results, rerankOutcome,
                 rerankReply, storeFailed, response>>
  /\ UNCHANGED nonSearchVars

\* A request of WindowRequests arrives at GET /api/search.
WindowRequest ==
  /\ pc = "idle"
  /\ \E r \in WindowRequests : req' = r
  /\ pc' = "validate"
  /\ UNCHANGED <<conn, calls, embedOutcome, candidates, results, rerankOutcome,
                 rerankReply, storeFailed, response>>
  /\ UNCHANGED nonSearchVars

\* _validate_ranges_or_422, before get_db().
Validate ==
  /\ pc = "validate"
  /\ IF RangesInvalid(req)
     THEN /\ response' = Failed(422)
          /\ pc' = "done"
     ELSE /\ pc' = "acquire"
          /\ UNCHANGED response
  /\ UNCHANGED <<req, conn, calls, embedOutcome, candidates, results, rerankOutcome,
                 rerankReply, storeFailed>>
  /\ UNCHANGED nonSearchVars

\* put_connection in the finally of get_db: the connection goes back to the
\* pool (or is closed) however the with block was left.
PutConnectionKeeps(c) == c
PutConnection(c) == IF c = "held" THEN "released" ELSE c

\* with get_db() as conn: the connection is taken, or the store raises.
Acquire ==
  /\ pc = "acquire"
  /\ \/ /\ conn' = "held"
        /\ pc' = IF req.route = "listings" THEN "list" ELSE "classify"
        /\ UNCHANGED <<storeFailed, response>>
     \/ /\ storeFailed' = TRUE
        /\ response' = Failed(500)
        /\ pc' = "done"
        /\ UNCHANGED conn
  /\ UNCHANGED <<req, calls, embedOutcome, candidates, results, rerankOutcome,
                 rerankReply>>
  /\ UNCHANGED nonSearchVars

\* list_listings inside the with block: the count and the page are read under
\* the filter conditions and returned.
ListListings ==
  /\ pc = "list"
  /\ calls' = Append(calls, [kind |-> "list", filters |-> FilterConditions(req)])
  /\ conn' = PutConnection(conn)
  /\ pc' = "done"
  /\ \/ \E n \in 0..MaxCands :
          /\ results' = TextRows(n)
          /\ response' = [status |-> 200, query |-> <<>>, method |-> "",
                          total |-> n, data |-> TextRows(n)]
          /\ UNCHANGED storeFailed
     \/ /\ storeFailed' = TRUE
        /\ response' = Failed(500)
        /\ UNCHANGED results
  /\ UNCHANGED <<req, embedOutcome, candidates, rerankOutcome, rerankReply>>
  /\ UNCHANGED nonSearchVars

\* if len(words) < 3
Classify ==
  /\ pc = "classify"
  /\ pc' = IF UseTextPath(Words(req.q)) THEN "text" ELSE "embed"
  /\ UNCHANGED <<req, conn, calls, embedOutcome, candidates, results, rerankOutcome,
                 rerankReply, storeFailed, response>>
  /\ UNCHANGED nonSearchVars

\* _text_search(cur, q, limit, filter_conditions, ...) and the return that
\* follows it; the with block releases the connection on the way out.
TextSearch(method) ==
  /\ calls' = Append(calls, [kind |-> "text", q |-> req.q, limit |-> req.limit,
                             filters |-> FilterConditions(req)])
  /\ conn' = PutConnection(conn)
  /\ pc' = "done"
  /\ \/ \E n \in 0..MaxCands :
          LET rows == Take(TextRows(n), req.limit)   \* LIMIT %s
          IN /\ results' = rows
             /\ response' = Ok(method, rows)
             /\ UNCHANGED storeFailed
     \/ /\ storeFailed' = TRUE
        /\ response' = Failed(500)
        /\ UNCHANGED results
  /\ UNCHANGED <<req, embedOutcome, candidates, rerankOutcome, rerankReply>>
  /\ UNCHANGED nonSearchVars

TextNative ==
  /\ pc = "text"
  /\ TextSearch(TextTag)

TextFallback ==
  /\ pc = "fallback"
  /\ TextSearch(FallbackTag)

\* except Exception: the handler goes on to the text search.
OnEmbedErrorPropagate ==
  /\ pc' = "done"
  /\ conn' = PutConnection(conn)
  /\ response' = Failed(500)
OnEmbedError ==
  /\ pc' = "fallback"
  /\ UNCHANGED <<conn, response>>

\* if not query_embedding
IsEmptyEmbeddingNever(v) == FALSE
IsEmptyEmbedding(v) == v = <<>>

\* query_embedding = get_embedding(q) and the two branches that follow it.
Embed ==
  /\ pc = "embed"
  /\ calls' = Append(calls, [kind |-> "embed", q |-> req.q])
  /\ \/ /\ embedOutcome' = "error"
        /\ OnEmbedError
     \/ \E v \in {<<>>, <<1, 2>>} :
          /\ embedOutcome' = IF v = <<>> THEN "empty" ELSE "vector"
          /\ IF IsEmptyEmbedding(v)
             THEN /\ response' = Ok(SemanticTag, <<>>)
                  /\ conn' = PutConnection(conn)
                  /\ pc' = "done"
             ELSE /\ pc' = "vector"
                  /\ UNCHANGED <<conn, response>>
  /\ UNCHANGED <<req, candidates, results, rerankOutcome, rerankReply, storeFailed>>
  /\ UNCHANGED nonSearchVars

\* _semantic_candidates(cur, vec_str, fetch_limit, ...); the with block ends.
VectorSearch ==
  /\ pc = "vector"
  /\ calls' = Append(calls, [kind |-> "vector", fetch_limit |-> FetchLimit(req.limit),
                             filters |-> FilterConditions(req)])
  /\ conn' = PutConnection(conn)
  /\ \/ \E ds \in AscendingLists :
          LET rows == Take([i \in 1..Len(ds) |-> CandidateRow(i, ds[i])],
                           FetchLimit(req.limit))   \* LIMIT %s
          IN /\ candidates' = rows
             /\ results' = rows
             /\ pc' = "filter"
             /\ UNCHANGED <<storeFailed, response>>
     \/ /\ storeFailed' = TRUE
        /\ response' = Failed(500)
        /\ pc' = "done"
        /\ UNCHANGED <<candidates, results>>
  /\ UNCHANGED <<req, embedOutcome, rerankOutcome, rerankReply>>
  /\ UNCHANGED nonSearchVars

\* if results: results = [r for r in results if ... <= threshold]
Filter ==
  /\ pc = "filter"
  /\ results' = IF results # <<>> THEN ThresholdFilter(results, req.threshold) ELSE results
  /\ pc' = "rerank"
  /\ UNCHANGED <<req, conn, calls, embedOutcome, candidates, rerankOutcome,
                 rerankReply, storeFailed, response>>
  /\ UNCHANGED nonSearchVars

\* if rerank and results: ... try/except around rerank_documents
Rerank ==
  /\ pc = "rerank"
  /\ pc' = "respond"
  /\ IF req.rerank /\ results # <<>>
     THEN LET n == RerankCount(Len(results), req.limit, req.rerank_top_k)
          IN /\ calls' = Append(calls, [kind |-> "rerank", q |-> req.q,
                                        docs |-> [i \in 1..n |-> results[i].id]])
             /\ \/ /\ rerankOutcome' = "error"
                   /\ rerankReply' = [kind |-> "raised", n |-> 0]
                   /\ UNCHANGED results
                \/ \E scores \in ScoreLists(n) :
                     LET r == RerankResult(results, req.limit, req.rerank_top_k, scores)
                     IN /\ results' = r.results
                        /\ rerankOutcome' = r.outcome
                        /\ rerankReply' = [kind |-> "scores", n |-> Len(scores)]
     ELSE /\ rerankOutcome' = "skipped"
          /\ UNCHANGED <<calls, results, rerankReply>>
  /\ UNCHANGED <<req, conn, embedOutcome, candidates, storeFailed, response>>
  /\ UNCHANGED nonSearchVars

\* results = results[:limit] and the final return.
Respond ==
  /\ pc = "respond"
  /\ results' = Truncate(results, req.limit)
  /\ response' = Ok(VectorTag(req.rerank), results')
  /\ pc' = "done"
  /\ UNCHANGED <<req, conn, calls, embedOutcome, candidates, rerankOutcome, rerankReply,
                 storeFailed>>
  /\ UNCHANGED nonSearchVars

\* ------------------------------------------------- the embedding cache
\* embeddings.py: get_embedding over _get_embedding_cached, which is wrapped in
\* functools.lru_cache(maxsize=_EMBEDDING_CACHE_SIZE).  Threads call
\* get_embedding concurrently; the cache's lookup and its insertion are each
\* atomic, the remote call between them is not.
Threads == {1, 2}

\* Texts passed to get_embedding.
CacheTexts ==
  { <<" ">>,
    <<"a">>,
    <<"b">>,
    <<"a", "b">>,
    <<"a", "b", " ">>,
    <<"a", "b", "a">>,
    <<"a", "b", "a", "b">> }

\* Vectors the provider may return for a text (it need not repeat itself).
ProviderVectors == {<<1, 0>>, <<0, 1>>}

\* The cache key of the stripped text: (text, model, dimensions).
CacheKey(s) == <<s, EMBEDDING_MODEL, EMBEDDING_DIMENSIONS>>

NoKey == CacheKey(<<>>)

\* How a call ended: kind is "none" (no call yet or one in progress), "empty",
\* "hit", "miss", "direct" or "error"; path is the branch of get_embedding
\* taken; wasResident and stored are the cache's content for the key when the
\* call started; afterError says that the thread's previous call was for the
\* same key and ended in an error.
NoRet ==
  [ kind |-> "none", vec |-> <<>>, text |-> <<>>, remote |-> FALSE,
    path |-> "none", wasResident |-> FALSE, stored |-> <<>>,
    afterError |-> FALSE ]

\* The threads run the same code: the calls of one of them are recorded, of
\* the others only that they have called.
Observed == 1
Record(t, ret) == IF t = Observed THEN ret ELSE [NoRet EXCEPT !.path = "other"]

InitCache ==
  /\ cache = <<>>
  /\ cpc = [t \in Threads |-> "idle"]
  /\ ckey = [t \in Threads |-> NoKey]
  /\ cvec = [t \in Threads |-> <<>>]
  /\ cret = [t \in Threads |-> NoRet]
  /\ useOrder = <<>>

\* The position of key in the cache, 0 when it is not resident.
CachePos(c, key) ==
  IF \E i \in 1..Len(c) : c[i].key = key
  THEN CHOOSE i \in 1..Len(c) : c[i].key = key
  ELSE 0

Resident(c, key) == CachePos(c, key) # 0

RemoveAt(c, i) == SubSeq(c, 1, i - 1) \o SubSeq(c, i + 1, Len(c))

\* The lookup of _get_embedding_cached finds the key.
CacheHitNever(c, key) == FALSE
CacheHit(c, key) == Resident(c, key)

\* A hit moves the entry to the most recently used end.
TouchKeepsPlace(c, key) == c
Touch(c, key) ==
  LET i == CachePos(c, key) IN Append(RemoveAt(c, i), c[i])

\* if len(text) > _EMBEDDING_CACHE_MAX_TEXT_LEN
BypassesCacheFrom(s) == Len(s) >= CacheMaxTextLen
BypassesCache(s) == Len(s) > CacheMaxTextLen

\* The cache is full: the insertion evicts.
CacheFullLate(c) == Len(c) > CacheSize
CacheFull(c) == Len(c) >= CacheSize

\* The entry an insertion into a full cache evicts: the oldest.
VictimNewest(c) == Len(c)
Victim(c) == 1

\* lru_cache's insertion after the wrapped function returned: nothing when the
\* key was stored meanwhile, else evict the oldest entry of a full cache and
\* store the new one as the most recently used.
CacheInsertAlways(c, key, vec) == Append(c, [key |-> key, vec |-> vec])
CacheInsert(c, key, vec) ==
  IF Resident(c, key) THEN c
  ELSE IF CacheFull(c) THEN Append(RemoveAt(c, Victim(c)), [key |-> key, vec |-> vec])
  ELSE Append(c, [key |-> key, vec |-> vec])

\* The keys in the order the cache last returned or stored them, latest last:
\* a record of the accesses kept beside the cache, not read by it.
Used(order, key) ==
  Append(SelectSeq(order, LAMBDA k : k # key), key)

\* The record forgets the keys that are no longer stored.
StillStored(order, c) == SelectSeq(order, LAMBDA k : Resident(c, k))

\* The resident key whose last access is the oldest.
LeastRecentlyUsed(c, order) ==
  LET resident == SelectSeq(order, LAMBDA k : Resident(c, k))
  IN IF resident = <<>> THEN NoKey ELSE resident[1]

\* The cache after the wrapped function raised: lru_cache stores nothing.
OnRemoteErrorCachesFailure(c, key) == CacheInsert(c, key, <<>>)
OnRemoteError(c, key) == c

\* What a call records when it starts.
Started(text, key, path) ==
  [ NoRet EXCEPT !.text = text, !.path = path,
                 !.wasResident = Resident(cache, key),
                 !.stored = IF Resident(cache, key)
                            THEN cache[CachePos(cache, key)].vec ELSE <<>>,
                 !.afterError = /\ cret[Observed].kind = "error"
                                /\ CacheKey(Strip(cret[Observed].text)) = key ]

\* get_embedding(text) up to its first remote call: strip, the empty text, the
\* long text, and the cache lookup.
GetEmbedding(t) ==
  /\ cpc[t] = "idle"
  /\ \E text \in CacheTexts :
       LET s == Strip(text)
           key == CacheKey(s)
       IN IF s = <<>>
          THEN /\ cret' = [cret EXCEPT ![t] =
                                Record(t, [Started(text, key, "empty") EXCEPT !.kind = "empty"])]
               /\ UNCHANGED <<cache, cpc, ckey, useOrder>>
          ELSE IF BypassesCache(s)
          THEN /\ cpc' = [cpc EXCEPT ![t] = "direct"]
               /\ ckey' = [ckey EXCEPT ![t] = key]
               /\ cret' = [cret EXCEPT ![t] = Record(t, Started(text, key, "direct"))]
               /\ UNCHANGED <<cache, useOrder>>
          ELSE IF CacheHit(cache, key)
          THEN /\ cret' = [cret EXCEPT ![t] =
                             Record(t, [Started(text, key, "cache") EXCEPT
                                          !.kind = "hit",
                                          !.vec = cache[CachePos(cache, key)].vec])]
               /\ cache' = Touch(cache, key)
               /\ useOrder' = Used(useOrder, key)
               /\ UNCHANGED <<cpc, ckey>>
          ELSE /\ cpc' = [cpc EXCEPT ![t] = "remote"]
               /\ ckey' = [ckey EXCEPT ![t] = key]
               /\ cret' = [cret EXCEPT ![t] = Record(t, Started(text, key, "cache"))]
               /\ UNCHANGED <<cache, useOrder>>
  /\ UNCHANGED cvec
  /\ UNCHANGED nonCacheVars

\* _get_client().embeddings.create(...): the remote call returns or raises.
\* A direct call returns the vector; a raise leaves the cache as it is.
RemoteEmbedding(t) ==
  /\ cpc[t] \in {"direct", "remote"}
  /\ \/ /\ cret' = [cret EXCEPT ![t] = Record(t, [@ EXCEPT !.kind = "error", !.remote = TRUE])]
        /\ cpc' = [cpc EXCEPT ![t] = "idle"]
        /\ ckey' = [ckey EXCEPT ![t] = NoKey]
        /\ cache' = IF cpc[t] = "remote" THEN OnRemoteError(cache, ckey[t]) ELSE cache
        /\ UNCHANGED cvec
     \/ \E v \in ProviderVectors :
          IF cpc[t] = "direct"
          THEN /\ cret' = [cret EXCEPT ![t] =
                             Record(t, [@ EXCEPT !.kind = "direct", !.vec = v, !.remote = TRUE])]
               /\ cpc' = [cpc EXCEPT ![t] = "idle"]
               /\ ckey' = [ckey EXCEPT ![t] = NoKey]
               /\ UNCHANGED <<cvec, cache>>
          ELSE /\ cvec' = [cvec EXCEPT ![t] = v]
               /\ cret' = [cret EXCEPT ![t] = Record(t, [@ EXCEPT !.remote = TRUE])]
               /\ cpc' = [cpc EXCEPT ![t] = "insert"]
               /\ UNCHANGED <<ckey, cache>>
  /\ UNCHANGED useOrder
  /\ UNCHANGED nonCacheVars

\* lru_cache stores the result of the miss and get_embedding returns it.
CacheStore(t) ==
  /\ cpc[t] = "insert"
  /\ cache' = CacheInsert(cache, ckey[t], cvec[t])
  /\ IF Resident(cache, ckey[t])
     THEN UNCHANGED useOrder
     ELSE useOrder' = StillStored(Used(useOrder, ckey[t]), cache')
  /\ cret' = [cret EXCEPT ![t] = Record(t, [@ EXCEPT !.kind = "miss", !.vec = cvec[t]])]
  /\ cpc' = [cpc EXCEPT ![t] = "idle"]
  /\ ckey' = [ckey EXCEPT ![t] = NoKey]
  /\ cvec' = [cvec EXCEPT ![t] = <<>>]
  /\ UNCHANGED nonCacheVars

NextCache ==
  \E t \in Threads :
    \/ GetEmbedding(t)
    \/ RemoteEmbedding(t)
    \/ CacheStore(t)

\* ---------------------------------------------------------------- the store
\* raw_listings: one row per listing, in the order of their ids.  The unique
\* index on url is what ON CONFLICT (url) relies on.
NoUrl == [kind |-> "empty", n |-> 0, title |-> "", description |-> ""]
NAUrl == [kind |-> "N/A", n |-> 0, title |-> "", description |-> ""]
Url(n) == [kind |-> "given", n |-> n, title |-> "", description |-> ""]

\* f"manual://{_hash_url(title + description)}"
ManualUrl(title, description) ==
  [kind |-> "manual", n |-> 0, title |-> title, description |-> description]

\* _hash_url: the SHA-256 of the url, a value of another type than the url.
HashUrl(url) == [sha256 |-> url]

\* A description_embedding is NULL or a vector; a vector is a point of a line
\* and the cosine distance of two vectors their gap, 0.05 a step.
NullEmbedding == [some |-> FALSE, at |-> 0]
Embedding(v) == [some |-> TRUE, at |-> v]
Abs(x) == IF x < 0 THEN 0 - x ELSE x
CosineDistance(a, b) == Abs(a - b) * (DistUnit \div 20)

\* The vector the provider computes for a description.
EmbeddingOf(description) ==
  CASE description = "d1" -> 0
    [] description = "d3" -> 1
    [] description = "d2" -> 3
    [] OTHER -> 5

\* threshold: float = 0.15
SEMANTIC_THRESHOLD == (15 * DistUnit) \div 100
\* LIMIT 5
DUPLICATE_LIMIT == 5
\* errors[:20], all_similar[:20]
REPORT_CAP == 20

\* A listing as a request or a scraper carries it.  price stands for the
\* financial figures price, gross_revenue, cash_flow and ebitda; inventory for
\* inventory, financial_data and extra_information; city for the location,
\* industry, source and contact columns.
Deal(url, title, description) ==
  [ url |-> url, title |-> title, description |-> description,
    price |-> "p1", inventory |-> "i1", city |-> "c1" ]

\* The row an INSERT writes: first_seen_date and last_seen_date are NOW().
NewRow(data, embedding, t) ==
  [ url |-> data.url,
    listing_hash |-> HashUrl(data.url),
    title |-> data.title,
    description |-> data.description,
    price |-> data.price,
    inventory |-> data.inventory,
    city |-> data.city,
    embedding |-> embedding,
    first_seen_date |-> t,
    last_seen_date |-> t ]

\* The position of the row of a url, 0 when there is none.
RowOf(rows, url) ==
  IF \E i \in 1..Len(rows) : rows[i].url = url
  THEN CHOOSE i \in 1..Len(rows) : rows[i].url = url
  ELSE 0

\* SELECT id FROM raw_listings WHERE url = %s ... fetchone() is not None
CheckUrlDuplicateNever(rows, url) == FALSE
CheckUrlDuplicate(rows, url) == RowOf(rows, url) # 0

\* The statement of _insert_listing: INSERT ... ON CONFLICT (url) DO UPDATE
\* SET last_seen_date, title, price, gross_revenue, cash_flow, ebitda,
\* description, description_embedding.
InsertListingSql(rows, data, embedding, t) ==
  LET i == RowOf(rows, data.url)
  IN IF i = 0
     THEN Append(rows, NewRow(data, embedding, t))
     ELSE [rows EXCEPT ![i] =
             [@ EXCEPT !.last_seen_date = t,
                       !.title = data.title,
                       !.price = data.price,
                       !.description = data.description,
                       !.embedding = embedding]]

\* An upsert that replaces the whole row.
UpsertSqlReplacingRow(rows, data, t) ==
  LET i == RowOf(rows, data.url)
  IN IF i = 0
     THEN Append(rows, NewRow(data, NullEmbedding, t))
     ELSE [rows EXCEPT ![i] = NewRow(data, @.embedding, t)]

\* _UPSERT_SQL of operations.py: INSERT (without an embedding) ... ON CONFLICT
\* (url) DO UPDATE SET last_seen_date, title, price, gross_revenue, cash_flow,
\* ebitda, inventory, financial_data, extra_information, description,
\* scraping_date.
UpsertSql(rows, data, t) ==
  LET i == RowOf(rows, data.url)
  IN IF i = 0
     THEN Append(rows, NewRow(data, NullEmbedding, t))
     ELSE [rows EXCEPT ![i] =
             [@ EXCEPT !.last_seen_date = t,
                       !.title = data.title,
                       !.price = data.price,
                       !.inventory = data.inventory,
                       !.description = data.description]]

\* str.strip() of a field: " " stands for a text of whitespace only.
Stripped(value) == IF value = " " THEN "" ELSE value

\* if not description or description == "N/A"
Usable(description) == description # "" /\ description # "N/A"

\* get_embedding returns [] for a text that is empty once stripped, and the
\* callers format it as "[]".
EmptyText(description) == Stripped(description) = ""
ZeroLengthVector == [some |-> TRUE, at |-> 0 - 1]

\* "[" + ",".join(str(v) for v in vec) + "]" of get_embedding(description)
EmbeddingStr(description) ==
  IF EmptyText(description) THEN ZeroLengthVector ELSE Embedding(EmbeddingOf(description))

\* %s::vector: the store rejects a vector of no dimension.
VectorRejected(embedding) == embedding = ZeroLengthVector

\* (description_embedding <=> vec) < threshold
BelowOrAt(distance, threshold) == distance <= threshold
Below(distance, threshold) == distance < threshold

MatchRow(rows, i, vec) ==
  [ id |-> i, url |-> rows[i].url, title |-> rows[i].title,
    distance |-> CosineDistance(rows[i].embedding.at, vec) ]

\* WHERE description_embedding IS NOT NULL AND distance < threshold, from row i on.
RECURSIVE MatchingFrom(_, _, _, _)
MatchingFrom(rows, i, vec, threshold) ==
  IF i > Len(rows) THEN <<>>
  ELSE IF /\ rows[i].embedding.some
          /\ Below(CosineDistance(rows[i].embedding.at, vec), threshold)
       THEN <<MatchRow(rows, i, vec)>> \o MatchingFrom(rows, i + 1, vec, threshold)
       ELSE MatchingFrom(rows, i + 1, vec, threshold)

\* ORDER BY distance.  Rows at one distance keep the order of their ids: the
\* stores of the model place every distance at every id.
RECURSIVE InsertAscending(_, _)
InsertAscending(row, sorted) ==
  IF sorted = <<>> THEN <<row>>
  ELSE IF row.distance < sorted[1].distance THEN <<row>> \o sorted
  ELSE <<sorted[1]>> \o InsertAscending(row, Tail(sorted))

RECURSIVE SortByDistanceFrom(_, _)
SortByDistanceFrom(rows, i) ==
  IF i = 0 THEN <<>>
  ELSE InsertAscending(rows[i], SortByDistanceFrom(rows, i - 1))

SortByDistance(rows) == SortByDistanceFrom(rows, Len(rows))

\* The query of _check_semantic_duplicate.
SemanticMatches(rows, vec, threshold) ==
  Take(SortByDistance(MatchingFrom(rows, 1, vec, threshold)), DUPLICATE_LIMIT)

\* ------------------------------------------------------------- ingestion
\* upload.py: upload_single and upload_csv, one request at a time.
\* _FALSY of operations.py, and "N/A" itself, whose lower case is in it.
Falsy == {"", "0", "$0", "0.0", "0.00", "$0.00", "none", "n/a", "null", "N/A"}

\* _normalise: blank and zero values become "N/A".
Normalise(value) == IF Stripped(value) \in Falsy THEN "N/A" ELSE Stripped(value)
NormaliseUrl(url) == IF url.kind \in {"empty", "N/A"} THEN NAUrl ELSE url

\* data[db_col] = _normalise(val) for every column of the CSV row.
MapCsvRow(row) ==
  [ row EXCEPT !.url = NormaliseUrl(row.url),
               !.title = Normalise(row.title),
               !.description = Normalise(row.description),
               !.price = Normalise(row.price),
               !.inventory = Normalise(row.inventory),
               !.city = Normalise(row.city) ]

\* The deals a single upload carries.
SingleDeals ==
  { Deal(u, "t1", d) : u \in {NoUrl, Url(1), Url(2)},
                        d \in {"", "N/A", " ", "d1", "d2", "d3"} }

\* The rows of a short CSV file.
CsvRows ==
  { Deal(NoUrl, "t1", "d1"),
    Deal(Url(1), "t1", "d1"),
    Deal(Url(2), "t1", ""),
    Deal(Url(2), "t1", "d1") }

\* A CSV file of REPORT_CAP + 1 rows of new urls and one description.
LongCsv == [i \in 1..(REPORT_CAP + 1) |-> Deal(Url(100 + i), "t1", "d1")]

CsvFiles ==
  UNION {[1..n -> CsvRows] : n \in 0..MaxRows} \cup {LongCsv}

StoredRow(url, description, embedding) ==
  NewRow(Deal(url, "t0", description), embedding, 1)

\* A store of three listings.
ThreeListings ==
  << StoredRow(ManualUrl("t1", "d1"), "d2", Embedding(3)),
     StoredRow(Url(3), "d3", Embedding(1)),
     StoredRow(Url(4), "d1", Embedding(0)) >>

\* The store before an upload.
InitialStores ==
  { <<>>,
    <<StoredRow(Url(1), "d1", Embedding(0))>>,
    <<StoredRow(Url(1), "d3", Embedding(1)), StoredRow(Url(3), "d1", NullEmbedding)>>,
    ThreeListings }

NoUploadRequest == [kind |-> "none", csv |-> FALSE, rows |-> <<>>, threshold |-> 0]

NoUploadResponse ==
  [ status |-> 0, inserted |-> 0, duplicate_url |-> FALSE, similar_listings |-> <<>>,
    skipped_duplicates |-> 0, errors |-> <<>>, potential_duplicates |-> <<>> ]

NoOp == [kind |-> "none", data |-> Deal(NoUrl, "", ""), time |-> 0]

Call(op, row, ok, found, n) ==
  [op |-> op, row |-> row, ok |-> ok, found |-> found, n |-> n]

InitStore(stores) ==
  /\ store \in stores
  /\ work = store
  /\ prevStore = store
  /\ now = 2
  /\ lastOp = NoOp

InitUpload ==
  /\ upc = "idle"
  /\ ureq = NoUploadRequest
  /\ udata = Deal(NoUrl, "", "")
  /\ uconn = "none"
  /\ ucalls = <<>>
  /\ urow = 0
  /\ isUrlDup = FALSE
  /\ similar = <<>>
  /\ uembed = NullEmbedding
  /\ inserted = 0
  /\ skipped = 0
  /\ errors = <<>>
  /\ allSimilar = <<>>
  /\ uresp = NoUploadResponse
  /\ failures = 0

\* A remote or store call may raise while the failures of the run last; the
\* calls made for the long file all succeed.
MayFail == failures < MaxFailures /\ Len(ureq.rows) <= REPORT_CAP

\* upload_single(deal): get_db, model_dump, and the generated url.
UploadSingle ==
  /\ upc = "idle"
  /\ \E deal \in SingleDeals :
       /\ ureq' = [kind |-> "single", csv |-> TRUE, rows |-> <<deal>>,
                   threshold |-> SEMANTIC_THRESHOLD]
       /\ udata' = IF deal.url = NoUrl
                   THEN [deal EXCEPT !.url = ManualUrl(deal.title, deal.description)]
                   ELSE deal
  /\ uconn' = "held"
  /\ urow' = 1
  /\ upc' = "tier1"
  /\ UNCHANGED <<ucalls, isUrlDup, similar, uembed, inserted, skipped, errors,
                 allSimilar, uresp, failures>>
  /\ UNCHANGED storeVars
  /\ UNCHANGED nonUploadVars

\* upload_csv(file): 400 for another file name, else get_db and the counters.
UploadCsv ==
  /\ upc = "idle"
  /\ \E file \in CsvFiles, csv \in BOOLEAN :
       /\ ureq' = [kind |-> "csv", csv |-> csv, rows |-> file,
                   threshold |-> SEMANTIC_THRESHOLD]
       /\ IF csv
          THEN /\ uconn' = "held"
               /\ upc' = "row"
               /\ UNCHANGED uresp
          ELSE /\ uresp' = [NoUploadResponse EXCEPT !.status = 400]
               /\ upc' = "done"
               /\ UNCHANGED uconn
  /\ UNCHANGED <<udata, ucalls, urow, isUrlDup, similar, uembed, inserted, skipped,
                 errors, allSimilar, failures>>
  /\ UNCHANGED storeVars
  /\ UNCHANGED nonUploadVars

\* for row_num, csv_row in enumerate(reader, start=2): the next row is mapped;
\* a row without a url is an error; after the last row the loop ends.
NextRow ==
  /\ upc = "row"
  /\ IF urow >= Len(ureq.rows)
     THEN /\ upc' = "commit"
          /\ UNCHANGED <<udata, urow, errors>>
     ELSE LET data == MapCsvRow(ureq.rows[urow + 1])
          IN /\ urow' = urow + 1
             /\ udata' = data
             /\ IF data.url = NAUrl
                THEN /\ errors' = Append(errors, urow + 2)
                     /\ upc' = "row"
                ELSE /\ upc' = "tier1"
                     /\ UNCHANGED errors
  /\ UNCHANGED <<ureq, uconn, ucalls, isUrlDup, similar, uembed, inserted, skipped,
                 allSimilar, uresp, failures>>
  /\ UNCHANGED storeVars
  /\ UNCHANGED nonUploadVars

\* if is_url_dup: ... return: what keeps upload_single from inserting.
InsertBlockedBySimilar(dup, matches) == dup \/ matches # <<>>
InsertBlocked(dup, matches) == dup

\* Where the handler goes once _check_semantic_duplicate returned matches.
AfterTier2(matches) ==
  IF ureq.kind = "single" /\ InsertBlocked(isUrlDup, matches)
  THEN "duplicate"
  ELSE "embed"

\* if similar: all_similar.append({"row": row_num, ..., "similar_to": similar})
Flagged(matches) ==
  IF ureq.kind = "csv" /\ matches # <<>>
  THEN Append(allSimilar, [row |-> urow + 1, title |-> udata.title, similar_to |-> matches])
  ELSE allSimilar

\* Level 1: _check_url_duplicate.  upload_csv skips the row that is found;
\* upload_single goes on to level 2 whatever the answer.
CheckUrl ==
  /\ upc = "tier1"
  /\ \/ LET found == CheckUrlDuplicate(work, udata.url)
        IN /\ isUrlDup' = found
           /\ ucalls' = Append(ucalls, Call("check_url", urow, TRUE, found, 0))
           /\ IF ureq.kind = "csv" /\ found
              THEN /\ skipped' = skipped + 1
                   /\ upc' = "row"
              ELSE /\ upc' = "tier2"
                   /\ UNCHANGED skipped
           /\ UNCHANGED failures
     \/ /\ MayFail
        /\ failures' = failures + 1
        /\ ucalls' = Append(ucalls, Call("check_url", urow, FALSE, FALSE, 0))
        /\ upc' = "raised"
        /\ UNCHANGED <<isUrlDup, skipped>>
  /\ UNCHANGED <<ureq, udata, uconn, urow, similar, uembed, inserted, errors,
                 allSimilar, uresp>>
  /\ UNCHANGED storeVars
  /\ UNCHANGED nonUploadVars

\* Level 2, _check_semantic_duplicate up to its query: no matches for an
\* unusable description or when get_embedding raises.
SemanticEmbed ==
  /\ upc = "tier2"
  /\ IF ~Usable(udata.description)
     THEN /\ similar' = <<>>
          /\ upc' = AfterTier2(<<>>)
          /\ UNCHANGED <<ucalls, failures>>
     ELSE \/ /\ ucalls' = Append(ucalls, Call("semantic_embed", urow, TRUE, FALSE, 0))
             /\ upc' = "query"
             /\ UNCHANGED <<similar, failures>>
          \/ /\ MayFail /\ ~EmptyText(udata.description)
             /\ failures' = failures + 1
             /\ ucalls' = Append(ucalls, Call("semantic_embed", urow, FALSE, FALSE, 0))
             /\ similar' = <<>>
             /\ upc' = AfterTier2(<<>>)
  /\ UNCHANGED <<ureq, udata, uconn, urow, isUrlDup, uembed, inserted, skipped, errors,
                 allSimilar, uresp>>
  /\ UNCHANGED storeVars
  /\ UNCHANGED nonUploadVars

\* The nearest-neighbour query of _check_semantic_duplicate; it is outside the
\* try, so a store error leaves the handler.
SemanticQuery ==
  /\ upc = "query"
  /\ \/ /\ VectorRejected(EmbeddingStr(udata.description))
        /\ ucalls' = Append(ucalls, Call("semantic_query", urow, FALSE, FALSE, 0))
        /\ upc' = "raised"
        /\ UNCHANGED <<similar, allSimilar, failures>>
     \/ /\ ~VectorRejected(EmbeddingStr(udata.description))
        /\ LET matches == SemanticMatches(work, EmbeddingOf(udata.description), ureq.threshold)
           IN /\ similar' = matches
              /\ ucalls' = Append(ucalls, Call("semantic_query", urow, TRUE, FALSE, Len(matches)))
              /\ allSimilar' = Flagged(matches)
              /\ upc' = AfterTier2(matches)
              /\ UNCHANGED failures
     \/ /\ MayFail
        /\ failures' = failures + 1
        /\ ucalls' = Append(ucalls, Call("semantic_query", urow, FALSE, FALSE, 0))
        /\ upc' = "raised"
        /\ UNCHANGED <<similar, allSimilar>>
  /\ UNCHANGED <<ureq, udata, uconn, urow, isUrlDup, uembed, inserted, skipped, errors,
                 uresp>>
  /\ UNCHANGED storeVars
  /\ UNCHANGED nonUploadVars

\* The embedding of the new listing: get_embedding(description[:8000]) inside
\* try/except pass, skipped for an unusable description.
EmbedListing ==
  /\ upc = "embed"
  /\ IF ~Usable(udata.description)
     THEN /\ uembed' = NullEmbedding
          /\ UNCHANGED <<ucalls, failures>>
     ELSE \/ /\ uembed' = EmbeddingStr(udata.description)
             /\ ucalls' = Append(ucalls, Call("listing_embed", urow, TRUE, FALSE, 0))
             /\ UNCHANGED failures
          \/ /\ MayFail /\ ~EmptyText(udata.description)
             /\ failures' = failures + 1
             /\ uembed' = NullEmbedding
             /\ ucalls' = Append(ucalls, Call("listing_embed", urow, FALSE, FALSE, 0))
  /\ upc' = "insert"
  /\ UNCHANGED <<ureq, udata, uconn, urow, isUrlDup, similar, inserted, skipped, errors,
                 allSimilar, uresp>>
  /\ UNCHANGED storeVars
  /\ UNCHANGED nonUploadVars

\* _insert_listing.  upload_single lets its error leave the handler;
\* upload_csv records it and rolls the transaction back.
InsertListing ==
  /\ upc = "insert"
  /\ \/ /\ ~VectorRejected(uembed)
        /\ work' = InsertListingSql(work, udata, uembed, now)
        /\ inserted' = inserted + 1
        /\ ucalls' = Append(ucalls, Call("insert", urow, TRUE, FALSE, 0))
        /\ upc' = IF ureq.kind = "csv" THEN "row" ELSE "commit"
        /\ UNCHANGED <<errors, failures>>
     \/ /\ MayFail \/ VectorRejected(uembed)
        /\ failures' = IF VectorRejected(uembed) THEN failures ELSE failures + 1
        /\ IF ureq.kind = "csv"
           THEN /\ errors' = Append(errors, urow + 1)
                /\ work' = store
                /\ ucalls' = ucalls \o << Call("insert", urow, FALSE, FALSE, 0),
                                          Call("rollback", urow, TRUE, FALSE, 0) >>
                /\ upc' = "row"
           ELSE /\ ucalls' = Append(ucalls, Call("insert", urow, FALSE, FALSE, 0))
                /\ upc' = "raised"
                /\ UNCHANGED <<errors, work>>
        /\ UNCHANGED inserted
  /\ UNCHANGED <<ureq, udata, uconn, urow, isUrlDup, similar, uembed, skipped,
                 allSimilar, uresp>>
  /\ UNCHANGED <<store, prevStore, now, lastOp>>
  /\ UNCHANGED nonUploadVars

\* conn.commit()
Commit ==
  /\ upc = "commit"
  /\ store' = work
  /\ ucalls' = Append(ucalls, Call("commit", urow, TRUE, FALSE, 0))
  /\ upc' = "respond"
  /\ UNCHANGED <<ureq, udata, uconn, urow, isUrlDup, similar, uembed, inserted, skipped,
                 errors, allSimilar, uresp, failures>>
  /\ UNCHANGED <<work, prevStore, now, lastOp>>
  /\ UNCHANGED nonUploadVars

\* The handler leaves the with block: by its return, by the early return of
\* an exact duplicate, or by an error; get_db puts the connection back, and a
\* transaction that was not committed is gone.
UploadRespond ==
  /\ upc \in {"respond", "duplicate", "raised"}
  /\ uconn' = PutConnection(uconn)
  /\ work' = store
  /\ uresp' =
       IF upc = "raised" THEN [NoUploadResponse EXCEPT !.status = 500]
       ELSE IF upc = "duplicate"
       THEN [NoUploadResponse EXCEPT !.status = 200, !.duplicate_url = TRUE,
                                     !.similar_listings = similar]
       ELSE IF ureq.kind = "single"
       THEN [NoUploadResponse EXCEPT !.status = 200, !.inserted = 1,
                                     !.similar_listings = similar]
       ELSE [NoUploadResponse EXCEPT !.status = 200, !.inserted = inserted,
                                     !.skipped_duplicates = skipped,
                                     !.errors = Take(errors, REPORT_CAP),
                                     !.potential_duplicates = Take(allSimilar, REPORT_CAP)]
  /\ upc' = "done"
  /\ UNCHANGED <<ureq, udata, ucalls, urow, isUrlDup, similar, uembed, inserted, skipped,
                 errors, allSimilar, failures>>
  /\ UNCHANGED <<store, prevStore, now, lastOp>>
  /\ UNCHANGED nonUploadVars

NextUpload ==
  \/ UploadSingle
  \/ UploadCsv
  \/ NextRow
  \/ CheckUrl
  \/ SemanticEmbed
  \/ SemanticQuery
  \/ EmbedListing
  \/ InsertListing
  \/ Commit
  \/ UploadRespond

\* Two workers serve one upload_single request each, at the same time.  Each
\* has its own connection and transaction (READ COMMITTED): its SELECTs see
\* the committed rows, and its INSERT ... ON CONFLICT waits while another
\* transaction holds an uncommitted row of the same url.
Workers == {1, 2}

WorkerDeals ==
  { Deal(u, t, d) : u \in {Url(3), Url(5)}, t \in {"t1", "t2"}, d \in {"d1", "d2"} }

NoWorkerResponse == [status |-> 0, inserted |-> FALSE, duplicate_url |-> FALSE]

InitWorkers ==
  /\ wpc = [w \in Workers |-> "idle"]
  /\ wdata = [w \in Workers |-> Deal(NoUrl, "", "")]
  /\ wdup = [w \in Workers |-> FALSE]
  /\ wsimilar = [w \in Workers |-> <<>>]
  /\ wembed = [w \in Workers |-> NullEmbedding]
  /\ wresp = [w \in Workers |-> NoWorkerResponse]

\* upload_single(deal): get_db, model_dump, and the generated url.
WorkerUpload(w) ==
  /\ wpc[w] = "idle"
  /\ \E deal \in WorkerDeals :
       wdata' = [wdata EXCEPT ![w] =
                   IF deal.url = NoUrl
                   THEN [deal EXCEPT !.url = ManualUrl(deal.title, deal.description)]
                   ELSE deal]
  /\ wpc' = [wpc EXCEPT ![w] = "tier1"]
  /\ UNCHANGED <<wdup, wsimilar, wembed, wresp>>
  /\ UNCHANGED storeVars
  /\ UNCHANGED nonWorkerVars

\* is_url_dup = _check_url_duplicate(cur, data["url"]), on the committed rows.
WorkerCheckUrl(w) ==
  /\ wpc[w] = "tier1"
  /\ wdup' = [wdup EXCEPT ![w] = CheckUrlDuplicate(store, wdata[w].url)]
  /\ wpc' = [wpc EXCEPT ![w] = "tier2"]
  /\ UNCHANGED <<wdata, wsimilar, wembed, wresp>>
  /\ UNCHANGED storeVars
  /\ UNCHANGED nonWorkerVars

\* similar = _check_semantic_duplicate(...), then the return of an exact
\* duplicate, or the embedding of the new listing.
WorkerSemantic(w) ==
  /\ wpc[w] = "tier2"
  /\ wsimilar' = [wsimilar EXCEPT ![w] =
                    IF Usable(wdata[w].description)
                    THEN SemanticMatches(store, EmbeddingOf(wdata[w].description),
                                         SEMANTIC_THRESHOLD)
                    ELSE <<>>]
  /\ IF InsertBlocked(wdup[w], wsimilar'[w])
     THEN /\ wresp' = [wresp EXCEPT ![w] =
                         [status |-> 200, inserted |-> FALSE, duplicate_url |-> TRUE]]
          /\ wpc' = [wpc EXCEPT ![w] = "done"]
          /\ UNCHANGED wembed
     ELSE /\ wembed' = [wembed EXCEPT ![w] =
                          IF Usable(wdata[w].description)
                          THEN Embedding(EmbeddingOf(wdata[w].description))
                          ELSE NullEmbedding]
          /\ wpc' = [wpc EXCEPT ![w] = "insert"]
          /\ UNCHANGED wresp
  /\ UNCHANGED <<wdata, wdup>>
  /\ UNCHANGED storeVars
  /\ UNCHANGED nonWorkerVars

\* The url is written by another transaction that has not committed yet.
RowLocked(w) ==
  \E o \in Workers \ {w} : wpc[o] = "commit" /\ wdata[o].url = wdata[w].url

\* new_id = _insert_listing(cur, data, embedding=embedding_str): the statement
\* waits for the lock of the row and then holds it up to the commit.
WorkerInsert(w) ==
  /\ wpc[w] = "insert"
  /\ ~RowLocked(w)
  /\ wpc' = [wpc EXCEPT ![w] = "commit"]
  /\ UNCHANGED <<wdata, wdup, wsimilar, wembed, wresp>>
  /\ UNCHANGED storeVars
  /\ UNCHANGED nonWorkerVars

\* conn.commit() and the return: the inserted or updated row becomes visible.
WorkerCommit(w) ==
  /\ wpc[w] = "commit"
  /\ store' = InsertListingSql(store, wdata[w], wembed[w], now)
  /\ work' = store'
  /\ wresp' = [wresp EXCEPT ![w] =
                 [status |-> 200, inserted |-> TRUE, duplicate_url |-> FALSE]]
  /\ wpc' = [wpc EXCEPT ![w] = "done"]
  /\ UNCHANGED <<wdata, wdup, wsimilar, wembed>>
  /\ UNCHANGED <<prevStore, now, lastOp>>
  /\ UNCHANGED nonWorkerVars

NextWorkers ==
  \E w \in Workers :
    \/ WorkerUpload(w)
    \/ WorkerCheckUrl(w)
    \/ WorkerSemantic(w)
    \/ WorkerInsert(w)
    \/ WorkerCommit(w)

\* ------------------------------------------- the semantic check on its own
\* _check_semantic_duplicate(cur, description, threshold) over stores of up to
\* MaxDupRows rows whose embeddings lie at every distance around the threshold.
DupEmbeddings == {NullEmbedding, Embedding(0), Embedding(3)}

DupStores ==
  UNION { { [i \in 1..n |-> StoredRow(Url(i), "d0", e[i])] : e \in [1..n -> DupEmbeddings] }
          : n \in 0..MaxDupRows }

\* threshold: the default 0.15, and 0.05.
DupThresholds == {SEMANTIC_THRESHOLD, DistUnit \div 20}

InitDup == InitSearch /\ InitCache /\ InitStore(DupStores) /\ InitUpload /\ InitWorkers

\* The whole function: no matches for an unusable description or when
\* get_embedding raises, else the rows the query returns.
CheckSemanticDuplicate ==
  /\ upc = "idle"
  /\ \E description \in {"", "N/A", "d1", "d3"}, threshold \in DupThresholds :
       /\ ureq' = [kind |-> "check", csv |-> FALSE,
                   rows |-> <<Deal(NoUrl, "", description)>>, threshold |-> threshold]
       /\ udata' = Deal(NoUrl, "", description)
       /\ IF ~Usable(description)
          THEN /\ similar' = <<>>
               /\ UNCHANGED ucalls
          ELSE \/ /\ similar' = <<>>
                  /\ ucalls' = <<Call("semantic_embed", 1, FALSE, FALSE, 0)>>
               \/ LET matches == SemanticMatches(work, EmbeddingOf(description), threshold)
                  IN /\ similar' = matches
                     /\ ucalls' = << Call("semantic_embed", 1, TRUE, FALSE, 0),
                                     Call("semantic_query", 1, TRUE, FALSE, Len(matches)) >>
  /\ upc' = "checked"
  /\ UNCHANGED <<uconn, urow, isUrlDup, uembed, inserted, skipped, errors, allSimilar,
                 uresp, failures>>
  /\ UNCHANGED storeVars
  /\ UNCHANGED nonUploadVars

NextDup == CheckSemanticDuplicate

\* ------------------------------------------- the upsert statements on their own
\* What a scraper or a racing upload re-ingests.
UpsertDeals ==
  [ url : {Url(1), Url(5)},
    title : {"t2"},
    description : {"d1", "d2"},
    price : {"p2"},
    inventory : {"i2", "0"},
    city : {"c1", "c2"} ]

\* _row_to_db: every column normalised, and the hash of the url.
RowToDb(row) == MapCsvRow(row)

\* upsert_listing(cursor, row) and its caller's commit.
UpsertListing ==
  /\ upc = "idle"
  /\ now < MaxTime
  /\ \E row \in UpsertDeals :
       /\ store' = UpsertSql(store, RowToDb(row), now)
       /\ lastOp' = [kind |-> "upsert", data |-> RowToDb(row), time |-> now]
  /\ work' = store'
  /\ prevStore' = store
  /\ now' = now + 1
  /\ UNCHANGED uploadVars
  /\ UNCHANGED nonUploadVars

\* _insert_listing(cur, data, embedding) and the commit, run whether or not
\* the url is stored, as when the url was stored after the caller's check.
InsertListingStatement ==
  /\ upc = "idle"
  /\ now < MaxTime
  /\ \E data \in UpsertDeals :
       \E embedding \in {NullEmbedding, Embedding(EmbeddingOf(data.description))} :
         /\ store' = InsertListingSql(store, data, embedding, now)
         /\ lastOp' = [kind |-> "insert", data |-> data, time |-> now]
  /\ work' = store'
  /\ prevStore' = store
  /\ now' = now + 1
  /\ UNCHANGED uploadVars
  /\ UNCHANGED nonUploadVars

\* load_vectors.main: the rows WHERE description_embedding IS NULL get the
\* embedding of their description, unless the batch call fails twice and the
\* batch is skipped.  Rows that hold an embedding are not selected.
Backfill(rows) ==
  [i \in 1..Len(rows) |->
     IF rows[i].embedding = NullEmbedding
     THEN [rows[i] EXCEPT !.embedding = Embedding(EmbeddingOf(rows[i].description))]
     ELSE rows[i]]

LoadVectors ==
  /\ upc = "idle"
  /\ \E i \in 1..Len(store) : store[i].embedding = NullEmbedding
  /\ \/ store' = Backfill(store)
     \/ store' = store
  /\ lastOp' = [kind |-> "backfill", data |-> Deal(NoUrl, "", ""), time |-> now]
  /\ work' = store'
  /\ prevStore' = store
  /\ UNCHANGED now
  /\ UNCHANGED uploadVars
  /\ UNCHANGED nonUploadVars

NextUpsert ==
  \/ UpsertListing
  \/ InsertListingStatement
  \/ LoadVectors

\* ----------------------------------------------------------- specifications
Init == InitSearch /\ InitCache /\ InitStore({ThreeListings}) /\ InitUpload /\ InitWorkers

\* The uploads and the upsert statements start from any of the stores.
InitIngest == InitSearch /\ InitCache /\ InitStore(InitialStores) /\ InitUpload /\ InitWorkers

Next ==
  \/ Request
  \/ Validate
  \/ Acquire
  \/ Classify
  \/ TextNative
  \/ TextFallback
  \/ Embed
  \/ VectorSearch
  \/ Filter
  \/ Rerank
  \/ Respond

Spec == Init /\ [][Next]_vars

\* Searches and listings whose ranges vary.
NextRanges ==
  \/ RangeRequest
  \/ Validate
  \/ Acquire
  \/ ListListings
  \/ Classify
  \/ TextNative
  \/ TextFallback
  \/ Embed
  \/ VectorSearch
  \/ Filter
  \/ Rerank
  \/ Respond

SpecRanges == Init /\ [][NextRanges]_vars

\* Searches whose limit and rerank window vary.
NextWindow ==
  \/ WindowRequest
  \/ Validate
  \/ Acquire
  \/ Classify
  \/ TextNative
  \/ TextFallback
  \/ Embed
  \/ VectorSearch
  \/ Filter
  \/ Rerank
  \/ Respond

SpecWindow == Init /\ [][NextWindow]_vars

SpecCache == Init /\ [][NextCache]_vars

SpecWorkers == Init /\ [][NextWorkers]_vars

SpecUpload == InitIngest /\ [][NextUpload]_vars

SpecDup == InitDup /\ [][NextDup]_vars

SpecUpsert == InitIngest /\ [][NextUpsert]_vars

\* The server answers one request, a search or an upload.
\* A request is taken only while no other is being served.
NextServer ==
  \/ upc = "idle" /\ Request
  \/ Validate
  \/ Acquire
  \/ Classify
  \/ TextNative
  \/ TextFallback
  \/ Embed
  \/ VectorSearch
  \/ Filter
  \/ Rerank
  \/ Respond
  \/ pc = "idle" /\ UploadSingle
  \/ pc = "idle" /\ UploadCsv
  \/ NextRow
  \/ CheckUrl
  \/ SemanticEmbed
  \/ SemanticQuery
  \/ EmbedListing
  \/ InsertListing
  \/ Commit
  \/ UploadRespond

SpecServer == Init /\ [][NextServer]_vars

\* ------------------------------------------------------------------- claims
Done == pc = "done"
Answered == pc = "done" /\ response.status = 200

\* The number of whitespace-separated tokens of q, counted by token starts.
TokenCount(q) ==
  Cardinality({ i \in 1..Len(q) :
                  q[i] \notin Whitespace /\ (i = 1 \/ q[i - 1] \in Whitespace) })

CallKinds == [i \in 1..Len(calls) |-> calls[i].kind]

\* The text search call the request's own q, limit and filters make.
OwnTextCall ==
  [kind |-> "text", q |-> req.q, limit |-> req.limit, filters |-> FilterConditions(req)]

\* C1: a query of fewer than 3 whitespace-separated tokens is answered by the
\* text search alone, under the tag "text", whatever the rerank flag; for a
\* query of 3 or more tokens no text or vector search is issued before the
\* embedding call.
C1_ClassifierChoosesPath ==
  /\ (Answered /\ TokenCount(req.q) < 3) =>
        /\ response.method = "text"
        /\ calls = <<OwnTextCall>>
  /\ (pc # "idle" /\ TokenCount(req.q) >= 3) =>
        \A i \in 1..Len(calls) :
          calls[i].kind \in {"text", "vector"} =>
            \E j \in 1..(i - 1) : calls[j].kind = "embed"

C1_Witness ==
  /\ Answered
  /\ TokenCount(req.q) = 2
  /\ req.rerank
  /\ response.method = "text"
  /\ response.total >= 1

\* C2: when the embedding call of a query of 3 or more tokens raises, the
\* text search runs with the request's query, limit and filters, its rows are
\* returned under "text (embedding fallback)", and neither a vector search nor
\* a rerank call is made.
C2_EmbeddingErrorFallsBackToText ==
  /\ embedOutcome = "error" =>
        /\ TokenCount(req.q) >= 3
        /\ \A i \in 1..Len(calls) : calls[i].kind \notin {"vector", "rerank"}
  /\ (Done /\ embedOutcome = "error") =>
        /\ calls = <<[kind |-> "embed", q |-> req.q], OwnTextCall>>
        /\ rerankOutcome = "none"
  /\ (Answered /\ embedOutcome = "error") =>
        /\ response.method = "text (embedding fallback)"
        /\ response.method # "text"
        /\ response.data = results
        /\ response.total = Len(results)

C2_Witness ==
  /\ Answered
  /\ embedOutcome = "error"
  /\ response.total >= 1
  /\ req.rerank

\* C3: when the embedding call returns a zero-length vector, the response is
\* the empty result (total 0, no data), no text search, vector search or
\* rerank call is issued, and the tag is neither of the two text tags.
C3_EmptyEmbeddingReturnsEmpty ==
  /\ embedOutcome = "empty" => Done
  /\ (Done /\ embedOutcome = "empty") =>
        /\ response.status = 200
        /\ response.total = 0
        /\ response.data = <<>>
        /\ CallKinds = <<"embed">>
        /\ response.method \notin {"text", "text (embedding fallback)"}

C3_Witness ==
  /\ Answered
  /\ embedOutcome = "empty"
  /\ req.rerank
  /\ TokenCount(req.q) >= 3

\* C4: a request with valid ranges in which no store call fails always ends
\* in a 200 response that carries a method tag, whatever the embedding call
\* and the rerank call did; before that the handler can always take a step.
C4_RemoteFailuresNeverPropagate ==
  /\ (Done /\ ~storeFailed /\ ~RangesInvalid(req)) =>
        /\ response.status = 200
        /\ response.method \in
             {"text", "text (embedding fallback)", "semantic", "semantic + rerank"}
  /\ (Done /\ response.status = 500) => storeFailed
  /\ pc \notin {"idle", "done"} => ENABLED Next

C4_Witness ==
  /\ Answered
  /\ embedOutcome = "vector"
  /\ rerankReply.kind = "raised"
  /\ response.total >= 1

\* C5: the method tag names the path taken: "semantic + rerank" only when
\* rerank scores were applied, and "semantic" when the rerank was skipped.
C5_TagNamesPathTaken ==
  (Answered /\ embedOutcome = "vector") =>
     /\ response.method = "semantic + rerank" => rerankOutcome = "applied"
     /\ rerankOutcome \in {"skipped", "error", "mismatch"} => response.method = "semantic"

\* The rerank call raised, or returned a number of scores that is not the
\* number of documents it was sent.
RerankFailed ==
  \/ rerankReply.kind = "raised"
  \/ /\ rerankReply.kind = "scores"
     /\ rerankReply.n # Len(calls[Len(calls)].docs)

\* C6: when the rerank call raises or returns a wrong number of scores, the
\* response holds the threshold-filtered candidates, unchanged and in their
\* order, truncated to limit.
C6_FailedRerankLeavesCandidates ==
  (Answered /\ RerankFailed) =>
     response.data = Take(ThresholdFilter(candidates, req.threshold), req.limit)

C6_Witness ==
  /\ Answered
  /\ rerankReply.kind = "scores"
  /\ Len(calls[Len(calls)].docs) = 2
  /\ rerankReply.n = 1
  /\ response.total = 2

\* C7: after a rerank that returned one score per windowed candidate, the
\* windowed candidates of the response are in descending order of blended
\* score.
C7_WindowOrderedByBlendedScore ==
  (Answered /\ rerankOutcome = "applied") =>
     \A i \in 1..Len(response.data) : \A j \in i..Len(response.data) :
        (response.data[i].has_rerank /\ response.data[j].has_rerank) =>
           response.data[i].similarity_score >= response.data[j].similarity_score

\* C8: the threshold filter keeps exactly the candidates whose distance is
\* <= threshold, a candidate at distance 0 included, in the store's order.
C8_FilterKeepsExactlyWithinThreshold ==
  pc = "rerank" =>
     LET Within(row) == row.distance <= req.threshold
     IN results = SelectSeq(candidates, Within)

\* C9: no candidate of a vector-path response is farther than the threshold.
C9_NoResultBeyondThreshold ==
  (Answered /\ embedOutcome = "vector") =>
     \A i \in 1..Len(response.data) : response.data[i].distance <= req.threshold

C9_Witness ==
  /\ Answered
  /\ rerankOutcome = "applied"
  /\ response.total >= 1
  /\ \E i \in 1..Len(candidates) : candidates[i].distance > req.threshold

\* C10: every response holds at most limit results and reports their number
\* as total.
C10_AtMostLimitResults ==
  Answered =>
     /\ Len(response.data) <= req.limit
     /\ response.total = Len(response.data)

C10_Witness ==
  /\ Answered
  /\ embedOutcome = "vector"
  /\ Len(ThresholdFilter(candidates, req.threshold)) > req.limit
  /\ response.total = req.limit

\* ------------------------------------------------ claims: the embedding cache
\* The record of the observed thread's last call.
ret == cret[Observed]

\* Only the observed thread has called get_embedding so far: its calls are a
\* sequence.
Sequential == \A t \in Threads \ {Observed} : cret[t] = NoRet /\ cpc[t] = "idle"

CallKey == CacheKey(Strip(ret.text))

\* C15: in a sequence of get_embedding calls, a call for a text within the
\* cache's text limit whose key is resident issues no remote call and returns
\* the stored vector; a remote call is issued for such a text only when its key
\* was not resident.
C15_ResidentKeyServedFromCache ==
  (Sequential /\ ret.path # "none" /\ Len(ret.text) <= CacheMaxTextLen) =>
     /\ ret.wasResident =>
          /\ ret.kind = "hit"
          /\ ~ret.remote
          /\ ret.vec = ret.stored
     /\ ret.remote => ~ret.wasResident

C15_Witness ==
  /\ Sequential
  /\ ret.kind = "hit"
  /\ Len(ret.text) = CacheMaxTextLen
  /\ ret.vec = <<0, 1>>
  /\ Len(cache) = CacheSize

\* C16 as stated: a call with a text longer than the limit always issues a
\* remote call and never goes through the cache; a text of exactly the limit's
\* length goes through the cache.
C16_LongTextBypassesCache ==
  /\ (ret.path # "none" /\ Len(ret.text) > CacheMaxTextLen) =>
       /\ ret.path = "direct"
       /\ ret.kind # "none" => ret.remote
  /\ (ret.path # "none" /\ Len(ret.text) = CacheMaxTextLen) => ret.path = "cache"

\* C16, amended: the length is that of the text after its surrounding
\* whitespace is stripped.  A call whose stripped text is longer than the limit
\* always issues a remote call and its key is never stored; a stripped text of
\* exactly the limit's length goes through the cache.
C16_LongStrippedTextBypassesCache ==
  LET s == Strip(ret.text)
  IN /\ (ret.path # "none" /\ Len(s) > CacheMaxTextLen) =>
          /\ ret.path = "direct"
          /\ ret.kind # "none" => (ret.remote /\ ret.kind \in {"direct", "error"})
          /\ ~ret.wasResident
          /\ ~Resident(cache, CacheKey(s))
     /\ (ret.path # "none" /\ Len(s) = CacheMaxTextLen) => ret.path = "cache"

\* A text longer than the limit only by its trailing blank was served from the
\* cache.
C16_Witness ==
  /\ Len(ret.text) > CacheMaxTextLen
  /\ Len(Strip(ret.text)) = CacheMaxTextLen
  /\ ret.kind = "hit"
  /\ ~Sequential

\* At most CacheSize entries, no two of one key.
Bounded(c) ==
  /\ Len(c) <= CacheSize
  /\ \A i, j \in 1..Len(c) : c[i].key = c[j].key => i = j

\* The keys the step drops from the cache.
Dropped == {cache[i].key : i \in {j \in 1..Len(cache) : ~Resident(cache', cache[j].key)}}

\* C17: under any interleaving of the threads the cache never holds more than
\* CacheSize entries nor two entries of one key, and a step that evicts is an
\* insertion into a full cache that evicts the least recently used entry and
\* no other.
C17_BoundedCacheEvictsLeastRecentlyUsed ==
  /\ Bounded(cache)
  /\ [][ /\ Bounded(cache')
         /\ Dropped # {} =>
              /\ Len(cache) = CacheSize
              /\ Dropped = {LeastRecentlyUsed(cache, useOrder)}
              /\ Len(cache') = CacheSize ]_vars

\* The entry the observed thread stored or was served is gone from the full
\* cache while other threads have been calling.
C17_Witness ==
  /\ Len(cache) = CacheSize
  /\ ~Sequential
  /\ ret.kind \in {"hit", "miss"}
  /\ ~Resident(cache, CallKey)

\* ------------------------------------------------------- claims: ingestion
SingleAnswered == upc = "done" /\ ureq.kind = "single" /\ uresp.status = 200
CsvAnswered == upc = "done" /\ ureq.kind = "csv" /\ uresp.status = 200

Tier2Ops == {"semantic_embed", "semantic_query"}
EmbedOps == {"semantic_embed", "listing_embed"}

\* The url of record r of the request as the handler sees it.
UrlOfRecord(r) ==
  IF ureq.kind = "csv" THEN MapCsvRow(ureq.rows[r]).url ELSE udata.url

\* C11: once the exact-key check of a record has found its key, neither the
\* embedding call nor the nearest-neighbour query of the semantic check is
\* issued for that record.
C11_ExactMatchSkipsSemanticCheck ==
  \A i, j \in 1..Len(ucalls) :
    ( /\ i < j
      /\ ucalls[i].op = "check_url"
      /\ ucalls[i].found
      /\ ucalls[j].row = ucalls[i].row ) => ucalls[j].op \notin Tier2Ops

\* The exact-key checks answered so far for records whose url was in the store
\* before the request.
ChecksOfStoredUrls ==
  { i \in 1..Len(ucalls) :
      /\ ucalls[i].op = "check_url"
      /\ ucalls[i].ok
      /\ RowOf(prevStore, UrlOfRecord(ucalls[i].row)) # 0 }

RecordFinished(r) ==
  \/ urow > r
  \/ urow = r /\ upc \in {"row", "commit", "respond"}
  \/ urow = r /\ upc = "done" /\ uresp.status = 200

\* A record without an exact-key match is inserted whatever the semantic check
\* found, and upload_single returns the matches as similar_listings.
InsertedDespiteMatches ==
  /\ \A i \in 1..Len(ucalls) :
       (ucalls[i].op = "check_url" /\ ucalls[i].ok /\ ~ucalls[i].found
          /\ RecordFinished(ucalls[i].row)) =>
         \E j \in 1..Len(ucalls) : ucalls[j].op = "insert" /\ ucalls[j].row = ucalls[i].row
  /\ (SingleAnswered /\ RowOf(prevStore, udata.url) = 0) =>
       /\ uresp.inserted = 1
       /\ ~uresp.duplicate_url
       /\ RowOf(store, udata.url) # 0
       /\ uresp.similar_listings = similar
       /\ \A i \in 1..Len(ucalls) :
            ucalls[i].op = "semantic_query" => Len(uresp.similar_listings) = ucalls[i].n

\* The semantic queries of the CSV rows that found matches.
FlaggedQueries ==
  {i \in 1..Len(ucalls) : ucalls[i].op = "semantic_query" /\ ucalls[i].n > 0}

Reported(i) ==
  \E k \in 1..Len(uresp.potential_duplicates) :
    /\ uresp.potential_duplicates[k].row = ucalls[i].row + 1
    /\ Len(uresp.potential_duplicates[k].similar_to) = ucalls[i].n

\* C13 as stated: semantic matches never block the insertion, and the matches
\* of every record are returned in the response.
C13_MatchesNeverBlockAndAreReturned ==
  /\ InsertedDespiteMatches
  /\ CsvAnswered => \A i \in FlaggedQueries : Reported(i)

\* C13, amended: semantic matches never block the insertion; upload_single
\* returns the matches of its record, and upload_csv returns the matches of the
\* first REPORT_CAP rows that had any.
C13_MatchesNeverBlockAndFirstAreReturned ==
  /\ InsertedDespiteMatches
  /\ CsvAnswered =>
       \A i \in FlaggedQueries :
         Cardinality({j \in FlaggedQueries : j < i}) < REPORT_CAP => Reported(i)

C13_Witness ==
  /\ CsvAnswered
  /\ Cardinality(FlaggedQueries) = REPORT_CAP + 1
  /\ uresp.inserted = REPORT_CAP + 1
  /\ Len(uresp.potential_duplicates) = REPORT_CAP

\* C18: within one request a remote call that failed is not issued again: a
\* search makes at most one embedding call and at most one rerank call, and
\* after an embedding call for a record has failed the ingestion makes no
\* other embedding call for that record.
C18_FailedRemoteCallIsNotRepeated ==
  /\ Cardinality({i \in 1..Len(calls) : calls[i].kind = "embed"}) <= 1
  /\ Cardinality({i \in 1..Len(calls) : calls[i].kind = "rerank"}) <= 1
  /\ \A i, j \in 1..Len(ucalls) :
       ( /\ i < j
         /\ ucalls[i].op \in EmbedOps
         /\ ~ucalls[i].ok
         /\ ucalls[j].row = ucalls[i].row ) => ucalls[j].op \notin EmbedOps

\* C19: when a search or an upload has finished, however it ended, its store
\* connection is no longer checked out.
C19_ConnectionReleasedOnEveryExit ==
  /\ pc = "done" => conn # "held"
  /\ upc = "done" => uconn # "held"

C19_Witness ==
  /\ upc = "done"
  /\ uresp.status = 500
  /\ uconn = "released"
  /\ \E i \in 1..Len(ucalls) : ucalls[i].op = "insert" /\ ~ucalls[i].ok

\* The vector of the description the check was called with.
CheckedVector == EmbeddingOf(udata.description)

\* C14: a list returned by _check_semantic_duplicate has at most
\* DUPLICATE_LIMIT matches, in ascending order of distance, each an existing
\* row with an embedding, at its distance to the new description's embedding,
\* which is strictly below the threshold.
C14_MatchesCappedAscendingBelowThreshold ==
  upc = "checked" =>
     /\ Len(similar) <= DUPLICATE_LIMIT
     /\ \A k \in 1..(Len(similar) - 1) : similar[k].distance <= similar[k + 1].distance
     /\ \A k \in 1..Len(similar) :
          /\ similar[k].id \in 1..Len(work)
          /\ work[similar[k].id].url = similar[k].url
          /\ work[similar[k].id].embedding.some
          /\ similar[k].distance = CosineDistance(work[similar[k].id].embedding.at, CheckedVector)
          /\ similar[k].distance < ureq.threshold
     /\ \A k, l \in 1..Len(similar) : similar[k].id = similar[l].id => k = l

C14_Witness ==
  /\ upc = "checked"
  /\ ureq.threshold = SEMANTIC_THRESHOLD
  /\ Len(similar) = DUPLICATE_LIMIT
  /\ similar[1].distance < similar[DUPLICATE_LIMIT].distance
  /\ Cardinality({i \in 1..Len(work) :
                    /\ work[i].embedding.some
                    /\ CosineDistance(work[i].embedding.at, CheckedVector) < SEMANTIC_THRESHOLD})
       > DUPLICATE_LIMIT

\* ------------------------------------------------------- claims: re-ingestion
\* The last statement re-ingested a url that was stored.
ReIngested == lastOp.kind # "none" /\ RowOf(prevStore, lastOp.data.url) # 0

\* C20: re-ingesting a stored url creates no second row and leaves the row's
\* url, listing_hash and first_seen_date as they were; the content of the row,
\* its title, description, financial figures and location, is that of the new
\* record and last_seen_date is the time of the re-ingestion.
C20_ReIngestionOverwritesContentKeepsIdentity ==
  ReIngested =>
     LET i == RowOf(prevStore, lastOp.data.url)
     IN /\ Len(store) = Len(prevStore)
        /\ \A j, k \in 1..Len(store) : store[j].url = store[k].url => j = k
        /\ store[i].url = prevStore[i].url
        /\ store[i].listing_hash = prevStore[i].listing_hash
        /\ store[i].first_seen_date = prevStore[i].first_seen_date
        /\ store[i].last_seen_date = lastOp.time
        /\ store[i].title = lastOp.data.title
        /\ store[i].description = lastOp.data.description
        /\ store[i].price = lastOp.data.price
        /\ store[i].inventory = lastOp.data.inventory
        /\ store[i].city = lastOp.data.city

\* C20, amended: re-ingesting a stored url creates no second row and leaves
\* the row's url, listing_hash and first_seen_date as they were; it overwrites
\* title, description and the financial figures price, gross_revenue,
\* cash_flow and ebitda and sets last_seen_date to the time of the
\* re-ingestion.  The location and the other columns keep their stored values;
\* upsert_listing overwrites inventory, financial_data and extra_information as
\* well and keeps the embedding, _insert_listing keeps those three and
\* overwrites the embedding.
C20_ReIngestionOverwritesListedFieldsKeepsIdentity ==
  ReIngested =>
     LET i == RowOf(prevStore, lastOp.data.url)
     IN /\ Len(store) = Len(prevStore)
        /\ \A j, k \in 1..Len(store) : store[j].url = store[k].url => j = k
        /\ \A j \in 1..Len(store) : j # i => store[j] = prevStore[j]
        /\ store[i].url = prevStore[i].url
        /\ store[i].listing_hash = prevStore[i].listing_hash
        /\ store[i].first_seen_date = prevStore[i].first_seen_date
        /\ store[i].last_seen_date = lastOp.time
        /\ store[i].title = lastOp.data.title
        /\ store[i].description = lastOp.data.description
        /\ store[i].price = lastOp.data.price
        /\ store[i].city = prevStore[i].city
        /\ lastOp.kind = "upsert" =>
             /\ store[i].inventory = lastOp.data.inventory
             /\ store[i].embedding = prevStore[i].embedding
        /\ lastOp.kind = "insert" => store[i].inventory = prevStore[i].inventory

C20_Witness ==
  /\ ReIngested
  /\ lastOp.kind = "upsert"
  /\ LET i == RowOf(prevStore, lastOp.data.url)
     IN /\ prevStore[i].first_seen_date < prevStore[i].last_seen_date
        /\ prevStore[i].last_seen_date < store[i].last_seen_date
        /\ store[i].description # prevStore[i].description
        /\ store[i].city # lastOp.data.city
        /\ Len(store) > 1

\* C30: when the remote call made on a cache miss raises, the caller gets the
\* error and the cache is as it was before the call's remote step (no entry
\* added, none dropped, none holding a failure); the thread's next call for the
\* same key, no other thread having called, issues a remote call again.
C30_FailedMissLeavesCacheUnchanged ==
  /\ \A i \in 1..Len(cache) : cache[i].vec \in ProviderVectors
  /\ (Sequential /\ ret.afterError /\ ret.path = "cache") =>
        /\ ~ret.wasResident
        /\ ret.kind \in {"none", "miss", "error"}
        /\ ret.kind # "none" => ret.remote
  /\ [][ ( /\ ret.path = "cache"
           /\ ret.kind = "none"
           /\ ret'.kind = "error" ) =>
             /\ cache' = cache
             /\ cpc'[Observed] = "idle" ]_vars

\* After a failed miss the same key was asked again, fetched remotely and
\* stored, with another entry in the cache all along.
C30_Witness ==
  /\ Sequential
  /\ ret.afterError
  /\ ret.kind = "miss"
  /\ Len(cache) = CacheSize
  /\ Resident(cache, CallKey)

\* The min and max of the revenue range once the legacy aliases are applied.
RevenueMin == IF req.min_revenue.some THEN req.min_revenue ELSE req.revenue_min
RevenueMax == IF req.max_revenue.some THEN req.max_revenue ELSE req.revenue_max

MinAboveMax(lo, hi) == lo.some /\ hi.some /\ lo.val > hi.val

\* C23: a search or listings request in which some min bound is greater than
\* its max bound, the legacy aliases applied, is answered 422 with no store
\* connection acquired and no embedding or store call made.
C23_InvalidRangeRejectedBeforeAnyCall ==
  ( /\ pc \notin {"idle", "validate"}
    /\ \/ MinAboveMax(RevenueMin, RevenueMax)
       \/ MinAboveMax(req.min_price, req.max_price) ) =>
    /\ pc = "done"
    /\ response = Failed(422)
    /\ conn = "none"
    /\ calls = <<>>
    /\ ~storeFailed

\* A listings request whose revenue range is invalid only through the alias
\* revenue_min was rejected.
C23_Witness ==
  /\ pc = "done"
  /\ response.status = 422
  /\ req.route = "listings"
  /\ ~req.min_revenue.some
  /\ req.revenue_min.some
  /\ req.max_revenue.some
  /\ req.revenue_min.val > req.max_revenue.val
  /\ ~MinAboveMax(req.min_price, req.max_price)

\* The vector searches issued so far.
VectorCalls == {i \in 1..Len(calls) : calls[i].kind = "vector"}

\* C24: for every limit in 1..100 the fetch_limit passed to the vector search
\* lies within [fetch_min, fetch_max], and no smaller limit has a larger
\* fetch_limit.
C24_FetchLimitBoundedAndMonotone ==
  \A i \in VectorCalls :
    /\ req.limit \in 1..LIMIT_MAX
    /\ calls[i].fetch_limit >= VECTOR_FETCH_MIN
    /\ calls[i].fetch_limit <= VECTOR_FETCH_MAX
    /\ calls[i].fetch_limit >= req.limit
    /\ \A l \in 1..req.limit : FetchLimit(l) <= calls[i].fetch_limit

\* The vector search of a request of limit 100 was run, with a fetch_limit
\* that is neither fetch_min nor twice the limit.
C24_Witness ==
  /\ VectorCalls # {}
  /\ req.limit = LIMIT_MAX
  /\ \E i \in VectorCalls :
       /\ calls[i].fetch_limit = VECTOR_FETCH_MAX
       /\ calls[i].fetch_limit < req.limit * VECTOR_FETCH_MULTIPLIER

\* The rerank calls issued so far.
RerankCalls == {i \in 1..Len(calls) : calls[i].kind = "rerank"}

\* The candidates the threshold filter left for the rerank step.
Filtered == ThresholdFilter(candidates, req.threshold)

\* C25: the documents sent to the rerank provider are the first
\* min(|filtered|, rerank_hard_max, max(limit, rerank_top_k)) candidates of the
\* filtered list in their order, so never more than rerank_hard_max.
C25_RerankWindowCappedAndInOrder ==
  \A c \in RerankCalls :
    LET docs == calls[c].docs
        most == IF req.limit >= req.rerank_top_k THEN req.limit ELSE req.rerank_top_k
    IN /\ Len(docs) <= RERANK_HARD_MAX
       /\ Len(docs) <= Len(Filtered)
       /\ Len(docs) <= most
       /\ \/ Len(docs) = RERANK_HARD_MAX
          \/ Len(docs) = Len(Filtered)
          \/ Len(docs) = most
       /\ \A i \in 1..Len(docs) : docs[i] = Filtered[i].id

\* More candidates than the hard cap were left and the request asked for a
\* window above the cap: exactly rerank_hard_max documents were sent.
C25_Witness ==
  /\ RerankCalls # {}
  /\ Len(Filtered) > RERANK_HARD_MAX
  /\ req.rerank_top_k > RERANK_HARD_MAX
  /\ req.limit > RERANK_HARD_MAX
  /\ \E c \in RerankCalls : Len(calls[c].docs) = RERANK_HARD_MAX

\* The rows of results that carry a numeric rerank score.
Reranked ==
  IF rerankOutcome \in {"applied", "partial"}
  THEN {i \in 1..Len(results) : results[i].has_rerank /\ results[i].rerank_score.num}
  ELSE {}

\* 10 * blended is the integer nearest to 4 * s + 6 * r (scores in 1/Unit).
IsBlendOf(blended, similarity, score) ==
  /\ 10 * blended - (4 * similarity + 6 * score) < 5
  /\ (4 * similarity + 6 * score) - 10 * blended < 5

\* C26: the blended score of a reranked candidate is round(0.4*s + 0.6*r, 4)
\* of its own similarity s, as the vector search returned it, and its own
\* rerank score r, wherever the candidate stands in the result.
C26_BlendedScoreOfOwnInputs ==
  \A i \in Reranked :
    IsBlendOf(results[i].similarity_score,
              candidates[results[i].id].similarity_score,
              results[i].rerank_score.val)

\* The response holds a reranked candidate whose blended score had to be
\* rounded, its similarity and its rerank score both above 0.
C26_Witness ==
  /\ pc = "done"
  /\ rerankOutcome = "applied"
  /\ \E i \in Reranked :
       LET s == candidates[results[i].id].similarity_score
           r == results[i].rerank_score.val
       IN /\ s > 0
          /\ r > 0
          /\ (4 * s + 6 * r) % 10 # 0
          /\ results[i].similarity_score # s

\* The length of the window of the rerank call.
WindowLen == IF RerankCalls = {} THEN 0 ELSE Len(calls[CHOOSE c \in RerankCalls : TRUE].docs)

\* C27: after a successful rerank and before the truncation to limit, the
\* candidates beyond the window follow the windowed ones in their original
\* order, each as the filter left it (original similarity, no rerank score).
C27_TailUntouchedAfterWindow ==
  (pc = "respond" /\ rerankOutcome = "applied") =>
    /\ Len(results) = Len(Filtered)
    /\ \A i \in 1..WindowLen :
         /\ results[i].has_rerank
         /\ \E j \in 1..WindowLen : results[i].id = Filtered[j].id
    /\ \A i \in (WindowLen + 1)..Len(Filtered) :
         /\ results[i] = Filtered[i]
         /\ ~results[i].has_rerank

\* The rerank reordered a window of two candidates and left a third, farther
\* candidate behind it.
C27_Witness ==
  /\ pc = "respond"
  /\ rerankOutcome = "applied"
  /\ WindowLen = 2
  /\ Len(results) = 3
  /\ results[1].id = 2
  /\ results[3].distance > results[1].distance

\* The rows whose embedding is not the one the provider computes for the
\* description they hold now.
StaleRows ==
  { i \in 1..Len(store) :
      /\ store[i].embedding # NullEmbedding
      /\ store[i].embedding # Embedding(EmbeddingOf(store[i].description)) }

\* C21: after any sequence of ingestions no record holds an embedding that
\* was computed from an earlier description: a stored embedding is the
\* embedding of the stored description.
C21_EmbeddingFollowsDescription == StaleRows = {}

\* C28: once a CSV request has committed and answered, the inserted count it
\* reports is the number of rows the request added to the store.
C28_InsertedCountIsRowsPersisted ==
  CsvAnswered => uresp.inserted = Len(store) - Len(prevStore)

\* The workers that answered inserted = true.
Inserters == {w \in Workers : wresp[w].inserted}

\* Both workers have answered requests that carry one url, which was not in
\* the store before them.
BothAnsweredOneNewKey ==
  /\ \A w \in Workers : wpc[w] = "done"
  /\ wdata[1].url = wdata[2].url
  /\ RowOf(prevStore, wdata[1].url) = 0

\* C29: of two concurrent upload_single requests with one url that is not in
\* the store, at most one answers inserted = true, the other answers
\* duplicate_url = true, and the stored record is that of the inserter.
C29_OneOfTwoConcurrentUploadsInserts ==
  BothAnsweredOneNewKey =>
    /\ Cardinality(Inserters) <= 1
    /\ \A w \in Workers \ Inserters : wresp[w].duplicate_url
    /\ \A w \in Inserters :
         LET i == RowOf(store, wdata[w].url)
         IN /\ i # 0
            /\ store[i].title = wdata[w].title
            /\ store[i].description = wdata[w].description

\* ---------------------------------------------------------------------------
\* C22: every persisted embedding has EMBEDDING_DIMENSIONS components, and a
\* record whose embedding could not be computed (unusable description, a
\* description empty once stripped, a failed embedding call) is persisted with
\* the embedding absent: an upload of a new listing that met no store error
\* of its own answers 200 and the stored row has no embedding.

Uncomputable(description) == ~Usable(description) \/ EmptyText(description)

SingleFinished == upc = "done" /\ ureq.kind = "single"

PersistedWithoutEmbedding ==
  /\ uresp.status = 200
  /\ Len(store) = Len(prevStore) + 1
  /\ store[Len(store)].embedding = NullEmbedding

C22_UncomputableEmbeddingPersistedAbsent ==
  /\ \A i \in 1..Len(store) : ~VectorRejected(store[i].embedding)
  /\ (SingleFinished /\ failures = 0 /\ ~isUrlDup /\ Uncomputable(udata.description))
       => PersistedWithoutEmbedding

====
